---- MODULE Spec2Model ----
(***************************************************************************)
(* A model of the art-lang core: the recursive-descent parser              *)
(* (parser.ts), the scope chain (environment.ts) and the tree-walking      *)
(* evaluator (interpreter.ts), driven the way App.tsx drives them:         *)
(* parse(source) and, when it returns Ok, run(program, canvas).            *)
(*                                                                         *)
(* Numbers are IEEE 754 doubles, as in the source: every arithmetic        *)
(* operation and every numeral is rounded to the nearest double.           *)
(***************************************************************************)
EXTENDS Integers, Sequences, FiniteSets, TLC

VARIABLES
  input,        \* Array.from(source): the characters handed to parse
  position,     \* PeekableIterator.position of the driver's iterator
  errors,       \* parse: the LocatedError[] collected so far
  program,      \* parse: the Expr[] collected so far (then run's program)
  iterations,   \* ghost: what each iteration of parse's driver loop did
  parsed,       \* the Result returned by parse, or NotYet
  environment,  \* run: the root Environment (scope chain, canvas, ghost counts)
  results,      \* run: the Results produced so far, in order
  pc,           \* "parse" | "run" | "done" | "tables"
  scopes,       \* the SymbolTable objects created so far (parent, Map)
  looked        \* ghost: the call of SymbolTable.lookup made last, when no
                \* enterScope or set has followed it: its handle, name
                \* and result, and the objects as they were at the call

vars == <<input, position, errors, program, iterations, parsed,
          environment, results, pc, scopes, looked>>

-----------------------------------------------------------------------------
(* Bounds of the model *)

\* longest exhaustively enumerated source text
MaxLen == 4
\* largest n in the counting loops (while (< i n) ...)
MaxCount == 4
\* the arithmetic forms take up to MaxArgs integer operands, each within
\* -MaxOperand .. MaxOperand
MaxArgs == 3
MaxOperand == 2
\* most SymbolTable objects alive when the class is driven directly
MaxScopes == 3

-----------------------------------------------------------------------------
(* Values that stand for JavaScript's undefined *)

\* an absent `location` / `length` (undefined)
NoLoc == -1
\* the value `undefined` where an Expr is expected
Undefined == [type |-> "undefined"]
\* parse has not returned yet
NotYet == [type |-> "pending"]

-----------------------------------------------------------------------------
(* Natural numbers of any size, for the arithmetic of doubles: a number is *)
(* the sequence of its digits in base 2^15, least significant first, with  *)
(* no zero as its last digit; <<>> is 0.                                   *)

DigitBits == 15
Base == 32768

Max(a, b) == IF a >= b THEN a ELSE b
Min(a, b) == IF a <= b THEN a ELSE b

Pow2(k) == 2^k

\* the number of bits of the digit n
BitLen(n) ==
  IF n = 0 THEN 0
  ELSE CHOOSE k \in 1..DigitBits : Pow2(k - 1) <= n /\ n < Pow2(k)

RECURSIVE BigTrim(_)
BigTrim(a) ==
  IF a # <<>> /\ a[Len(a)] = 0 THEN BigTrim(SubSeq(a, 1, Len(a) - 1)) ELSE a

RECURSIVE BigOfInt(_)
BigOfInt(n) == IF n = 0 THEN <<>> ELSE <<n % Base>> \o BigOfInt(n \div Base)

DigitAt(a, i) == IF i <= Len(a) THEN a[i] ELSE 0

BigBitLen(a) ==
  IF a = <<>> THEN 0 ELSE DigitBits * (Len(a) - 1) + BitLen(a[Len(a)])

\* bit i of a (bit 0 is the lowest)
BigBit(a, i) == (DigitAt(a, (i \div DigitBits) + 1) \div Pow2(i % DigitBits)) % 2

BigIsOdd(a) == a # <<>> /\ a[1] % 2 = 1

\* some bit of a below bit n is set
BigLowBits(a, n) ==
  \/ \E i \in 1..Min(Len(a), n \div DigitBits) : a[i] # 0
  \/ DigitAt(a, (n \div DigitBits) + 1) % Pow2(n % DigitBits) # 0

\* the number of zero bits below the lowest set bit of a, a # 0
RECURSIVE BigTrailingZeros(_)
BigTrailingZeros(a) ==
  IF a[1] = 0 THEN DigitBits + BigTrailingZeros(Tail(a))
  ELSE CHOOSE k \in 0..(DigitBits - 1) :
         a[1] % Pow2(k) = 0 /\ (a[1] \div Pow2(k)) % 2 = 1

\* -1, 0, 1 as a < b, a = b, a > b
RECURSIVE BigCmpFrom(_, _, _)
BigCmpFrom(a, b, i) ==
  IF i = 0 THEN 0
  ELSE IF a[i] # b[i] THEN (IF a[i] < b[i] THEN -1 ELSE 1)
  ELSE BigCmpFrom(a, b, i - 1)
BigCmp(a, b) ==
  IF Len(a) # Len(b) THEN (IF Len(a) < Len(b) THEN -1 ELSE 1)
  ELSE BigCmpFrom(a, b, Len(a))

RECURSIVE BigAddFrom(_, _, _, _)
BigAddFrom(a, b, i, carry) ==
  IF i > Len(a) /\ i > Len(b)
    THEN (IF carry = 0 THEN <<>> ELSE <<carry>>)
    ELSE LET s == DigitAt(a, i) + DigitAt(b, i) + carry
         IN  <<s % Base>> \o BigAddFrom(a, b, i + 1, s \div Base)
BigAdd(a, b) == BigAddFrom(a, b, 1, 0)

\* a - b for a >= b
RECURSIVE BigSubFrom(_, _, _, _)
BigSubFrom(a, b, i, borrow) ==
  IF i > Len(a) THEN <<>>
  ELSE LET d == a[i] - DigitAt(b, i) - borrow
       IN  <<IF d < 0 THEN d + Base ELSE d>>
             \o BigSubFrom(a, b, i + 1, IF d < 0 THEN 1 ELSE 0)
BigSub(a, b) == BigTrim(BigSubFrom(a, b, 1, 0))

\* a * d for one digit d
RECURSIVE BigMulDigitFrom(_, _, _, _)
BigMulDigitFrom(a, d, i, carry) ==
  IF i > Len(a) THEN (IF carry = 0 THEN <<>> ELSE <<carry>>)
  ELSE LET p == a[i] * d + carry
       IN  <<p % Base>> \o BigMulDigitFrom(a, d, i + 1, p \div Base)
BigMulDigit(a, d) == BigTrim(BigMulDigitFrom(a, d, 1, 0))

\* a * Base^k
BigShiftDigits(a, k) == IF a = <<>> THEN <<>> ELSE [i \in 1..k |-> 0] \o a

RECURSIVE BigMulFrom(_, _, _)
BigMulFrom(a, b, j) ==
  IF j > Len(b) THEN <<>>
  ELSE BigAdd(BigMulDigit(a, b[j]), BigShiftDigits(BigMulFrom(a, b, j + 1), 1))
BigMul(a, b) == BigMulFrom(a, b, 1)

\* a * 2^n
BigShl(a, n) ==
  LET b == n % DigitBits
      shifted ==
        IF b = 0 THEN a
        ELSE BigTrim([i \in 1..(Len(a) + 1) |->
               ((DigitAt(a, i) * Pow2(b)) % Base)
                 + (IF i > 1 THEN a[i - 1] \div Pow2(DigitBits - b) ELSE 0)])
  IN  BigShiftDigits(shifted, n \div DigitBits)

\* a \div 2^n
BigShr(a, n) ==
  LET w == n \div DigitBits
      b == n % DigitBits
      rest == IF w >= Len(a) THEN <<>> ELSE SubSeq(a, w + 1, Len(a))
  IN  IF b = 0 THEN rest
      ELSE BigTrim([i \in 1..Len(rest) |->
             (rest[i] \div Pow2(b))
               + (DigitAt(rest, i + 1) % Pow2(b)) * Pow2(DigitBits - b)])

\* the largest digit q with q * d <= r, for r < d * Base and the highest
\* digit of d at least Base / 2: the quotient of the two highest digits of r
\* by the highest digit of d is q, q + 1 or q + 2
BigQuotDigit(r, d) ==
  LET n  == Len(d)
      qh == Min(Base - 1, (DigitAt(r, n + 1) * Base + DigitAt(r, n)) \div d[n])
  IN  IF BigCmp(BigMulDigit(d, qh), r) <= 0 THEN qh
      ELSE IF BigCmp(BigMulDigit(d, qh - 1), r) <= 0 THEN qh - 1
      ELSE qh - 2

\* one step of the long division by d: the quotient and the remainder so
\* far (high) taken one digit of the numerator further
BigDivStep(high, digit, d) ==
  IF high.r = <<>> /\ digit = 0
    THEN [q |-> <<0>> \o high.q, r |-> <<>>]
  ELSE LET cur == BigTrim(<<digit>> \o high.r)
           qd  == BigQuotDigit(cur, d)
       IN  [q |-> <<qd>> \o high.q, r |-> BigSub(cur, BigMulDigit(d, qd))]

\* long division of the digits of n from the highest down to digit i by d
RECURSIVE BigDivFrom(_, _, _)
BigDivFrom(n, d, i) ==
  IF i > Len(n) THEN [q |-> <<>>, r |-> <<>>]
  ELSE BigDivStep(BigDivFrom(n, d, i + 1), n[i], d)

\* n \div d and n % d, d # 0: both are scaled by the power of two that
\* brings the highest digit of d to Base / 2 or more
BigDivMod(n, d) ==
  LET k == DigitBits - BitLen(d[Len(d)])
      s == BigDivFrom(BigShl(n, k), BigShl(d, k), 1)
  IN  [q |-> BigTrim(s.q), r |-> BigShr(s.r, k)]

-----------------------------------------------------------------------------
(* Numbers: the IEEE 754 doubles of JavaScript.  A finite double is        *)
(* (-1)^neg * mant * 2^exp with mant odd (or mant = 0 = <<>> and exp = 0,  *)
(* the zeros +0 and -0), mant < 2^53, exp >= -1074 and a value below       *)
(* 2^1024; the other doubles are the two infinities and NaN.  Every double *)
(* has one representation, so two are the same double exactly when the     *)
(* records are equal.                                                      *)

\* bits of the significand, lowest exponent, and the exponent no finite
\* double reaches
Precision == 53
MinExp == -1074
MaxBits == 1024

NaN == [kind |-> "nan", neg |-> FALSE, mant |-> <<>>, exp |-> 0]
Infinity(neg) == [kind |-> "infinity", neg |-> neg, mant |-> <<>>, exp |-> 0]
Zero(neg) == [kind |-> "finite", neg |-> neg, mant |-> <<>>, exp |-> 0]

\* the double (-1)^neg * m * 2^e when m * 2^e needs no rounding; past the
\* largest finite double the result is an infinity
Exact(neg, m, e) ==
  IF m = <<>> THEN Zero(neg)
  ELSE IF BigBitLen(m) + e > MaxBits THEN Infinity(neg)
  ELSE LET tz == BigTrailingZeros(m)
       IN  [kind |-> "finite", neg |-> neg, mant |-> BigShr(m, tz), exp |-> e + tz]

\* (-1)^neg * m * 2^e rounded to the nearest double, ties to the even
\* significand
Round(neg, m, e) ==
  LET drop == Max(BigBitLen(m) - Precision, MinExp - e) IN
  IF drop <= 0 THEN Exact(neg, m, e)
  ELSE LET q    == BigShr(m, drop)
           half == BigBit(m, drop - 1) = 1
           up   == half /\ (BigLowBits(m, drop - 1) \/ BigIsOdd(q))
       IN  Exact(neg, IF up THEN BigAdd(q, <<1>>) ELSE q, e + drop)

\* (-1)^neg * (n / d) * 2^e rounded to the nearest double, n # 0 and d # 0:
\* the quotient is taken to 55 bits or more and one more bit records whether
\* the division left a remainder
RoundRatio(neg, n, d, e) ==
  IF d = <<1>> THEN Round(neg, n, e)
  ELSE
    LET a  == Max(0, Precision + 2 + BigBitLen(d) - BigBitLen(n))
        qr == BigDivMod(BigShl(n, a), d)
    IN  IF qr.r = <<>>
          THEN Round(neg, BigShl(qr.q, 1), e - a - 1)
          ELSE Round(neg, BigAdd(BigShl(qr.q, 1), <<1>>), e - a - 1)

\* the double of an integer of the model
Int2Num(n) == Round(n < 0, BigOfInt(IF n < 0 THEN -n ELSE n), 0)

\* -1, 0, 1 as |a| < |b|, |a| = |b|, |a| > |b|, for finite a and b
MagCmp(a, b) ==
  IF a.mant = <<>> \/ b.mant = <<>>
    THEN (IF a.mant = b.mant THEN 0 ELSE IF a.mant = <<>> THEN -1 ELSE 1)
  ELSE LET ta == BigBitLen(a.mant) + a.exp
           tb == BigBitLen(b.mant) + b.exp
           e  == Min(a.exp, b.exp)
       IN  IF ta # tb THEN (IF ta < tb THEN -1 ELSE 1)
           ELSE BigCmp(BigShl(a.mant, a.exp - e), BigShl(b.mant, b.exp - e))

\* a === b on numbers: NaN equals nothing, +0 equals -0
NumEq(a, b) ==
  /\ a.kind # "nan" /\ b.kind # "nan"
  /\ \/ a = b
     \/ a.kind = "finite" /\ b.kind = "finite" /\ a.mant = <<>> /\ b.mant = <<>>

\* a < b
NumLt(a, b) ==
  /\ a.kind # "nan" /\ b.kind # "nan"
  /\ ~NumEq(a, b)
  /\ IF a.neg # b.neg THEN a.neg
     ELSE IF a.kind = "infinity" \/ b.kind = "infinity"
       THEN (IF a.neg THEN a.kind = "infinity" ELSE b.kind = "infinity")
     ELSE IF a.neg THEN MagCmp(a, b) > 0 ELSE MagCmp(a, b) < 0
\* a <= b
NumLe(a, b) == NumLt(a, b) \/ NumEq(a, b)

\* -a
NumNeg(a) == IF a.kind = "nan" THEN a ELSE [a EXCEPT !.neg = ~@]

\* a + b
NumAdd(a, b) ==
  IF a.kind = "nan" \/ b.kind = "nan" THEN NaN
  ELSE IF a.kind = "infinity"
    THEN (IF b.kind = "infinity" /\ a.neg # b.neg THEN NaN ELSE a)
  ELSE IF b.kind = "infinity" THEN b
  ELSE IF a.mant = <<>> /\ b.mant = <<>> THEN Zero(a.neg /\ b.neg)
  ELSE LET e  == Min(a.exp, b.exp)
           ma == BigShl(a.mant, a.exp - e)
           mb == BigShl(b.mant, b.exp - e)
           c  == BigCmp(ma, mb)
       IN  IF a.neg = b.neg THEN Round(a.neg, BigAdd(ma, mb), e)
           ELSE IF c = 0 THEN Zero(FALSE)
           ELSE IF c > 0 THEN Round(a.neg, BigSub(ma, mb), e)
           ELSE Round(b.neg, BigSub(mb, ma), e)

\* subtraction with its operands swapped
NumSub_swapped(a, b) == NumAdd(b, NumNeg(a))
\* a - b
NumSub(a, b) == NumAdd(a, NumNeg(b))

\* a * b
NumMul(a, b) ==
  IF a.kind = "nan" \/ b.kind = "nan" THEN NaN
  ELSE IF a.kind = "infinity" \/ b.kind = "infinity"
    THEN (IF (a.kind = "finite" /\ a.mant = <<>>) \/ (b.kind = "finite" /\ b.mant = <<>>)
            THEN NaN ELSE Infinity(a.neg # b.neg))
  ELSE Round(a.neg # b.neg, BigMul(a.mant, b.mant), a.exp + b.exp)

\* a / b
NumDiv(a, b) ==
  IF a.kind = "nan" \/ b.kind = "nan" THEN NaN
  ELSE IF a.kind = "infinity"
    THEN (IF b.kind = "infinity" THEN NaN ELSE Infinity(a.neg # b.neg))
  ELSE IF b.kind = "infinity" THEN Zero(a.neg # b.neg)
  ELSE IF b.mant = <<>>
    THEN (IF a.mant = <<>> THEN NaN ELSE Infinity(a.neg # b.neg))
  ELSE IF a.mant = <<>> THEN Zero(a.neg # b.neg)
  ELSE RoundRatio(a.neg # b.neg, a.mant, b.mant, a.exp - b.exp)

\* a zero test that never finds zero
NumIsZero_never(a) == FALSE
\* a === 0
NumIsZero(a) == a.kind = "finite" /\ a.mant = <<>>

\* Math.floor(a) for a finite a with 0 < a < 2^30, as an integer of the model
NumFloor(a) ==
  LET whole == IF a.exp >= 0 THEN BigShl(a.mant, a.exp)
               ELSE BigShr(a.mant, -a.exp)
  IN  DigitAt(whole, 1) + Base * DigitAt(whole, 2)

\* Math.max(0, Math.min(255, Math.floor(a))) as the template literal prints
\* it: NaN passes through min and max, everything else lands in 0..255
Clamp255(a) ==
  CASE a.kind = "nan"      -> "NaN"
    [] a.kind = "infinity" -> IF a.neg THEN "0" ELSE "255"
    [] OTHER ->
         IF a.neg \/ a.mant = <<>> THEN "0"
         ELSE IF BigBitLen(a.mant) + a.exp > 8 THEN "255"
         ELSE ToString(NumFloor(a))

-----------------------------------------------------------------------------
(* types.ts: the Expr variants *)

Num(loc, v)   == [type |-> "number",  location |-> loc, value |-> v]
Str(loc, v)   == [type |-> "string",  location |-> loc, value |-> v]
Bool(loc, v)  == [type |-> "boolean", location |-> loc, value |-> v]
Symbol(loc, v) == [type |-> "symbol", location |-> loc, value |-> v]
List(loc, es) == [type |-> "list",    location |-> loc, elements |-> es]

-----------------------------------------------------------------------------
(* core.ts: Result *)

ok(v) == [type |-> "ok", value |-> v]
error(e) == [type |-> "error", value |-> e]
isOk(r) == r.type = "ok"
isErr(r) == r.type = "error"
LocatedError(msg, loc, len) == [message |-> msg, location |-> loc, length |-> len]

-----------------------------------------------------------------------------
(* core.ts: PeekableIterator over `items`, as the pair (items, position).  *)
(* Positions are 0-based offsets as in the source; items[p + 1] is the     *)
(* character at offset p.                                                  *)

\* Array.from(input) for a source text given as a TLA+ string
Chars(s) == [i \in 1..Len(s) |-> SubSeq(s, i, i)]

\* the string made of a sequence of characters
RECURSIVE Join(_)
Join(cs) == IF cs = <<>> THEN "" ELSE Head(cs) \o Join(Tail(cs))

\* `undefined` returned by peek/next past the end
NoChar == ""

hasNext(items, p) == p < Len(items)
peek(items, p, offset) ==
  IF p + offset >= Len(items) THEN NoChar ELSE items[p + offset + 1]
\* next() returns peek(0); this is the position it leaves behind
next(items, p) == IF p >= Len(items) THEN p ELSE p + 1

\* characters c with c.trim() === "": of the white space and line
\* terminators that trim removes, the ones a string of the model can hold:
\* space, line feed, tab, carriage return, form feed, and written as the
\* characters themselves the vertical tab U+000B, the no-break space
\* U+00A0, U+1680 and U+FEFF (the others are U+2000..U+200A, U+2028,
\* U+2029, U+202F, U+205F and U+3000)
WhiteSpace == {" ", "\n", "\t", "\r", "\f", "", " ", " ", "﻿"}
Digits == {"0", "1", "2", "3", "4", "5", "6", "7", "8", "9"}

\* skipWhile(pred), pred given as the set of the values it accepts (NoChar
\* for undefined): the loop reads items[position], undefined from the end
\* on, and stops one past the end at the latest
RECURSIVE skipWhile(_, _, _)
skipWhile(items, p, pred) ==
  IF peek(items, p, 0) \in pred /\ p <= Len(items)
    THEN skipWhile(items, p + 1, pred)
    ELSE p

skipWhitespace(items, p) == skipWhile(items, p, WhiteSpace)

-----------------------------------------------------------------------------
(* parser.ts *)

DigitVal(c) ==
  CASE c = "0" -> 0 [] c = "1" -> 1 [] c = "2" -> 2 [] c = "3" -> 3
    [] c = "4" -> 4 [] c = "5" -> 5 [] c = "6" -> 6 [] c = "7" -> 7
    [] c = "8" -> 8 [] c = "9" -> 9

CountOf(cs, c) == Cardinality({i \in 1..Len(cs) : cs[i] = c})

\* the characters of cs without a leading sign
Unsigned(cs) ==
  IF cs # <<>> /\ Head(cs) \in {"-", "+"} THEN Tail(cs) ELSE cs

\* isNumber(str): !Number.isNaN(Number(str)) && str.trim() !== "", on the
\* strings the parser applies it to (one character, or a run of an optional
\* sign, digits and dots).  Number() accepts digits with at most one dot
\* anywhere ("1.", ".5", "1.5") as long as there is a digit.
isNumber(cs) ==
  LET u == Unsigned(cs) IN
  /\ u # <<>>
  /\ \A i \in 1..Len(u) : u[i] \in Digits \cup {"."}
  /\ CountOf(u, ".") <= 1
  /\ \E i \in 1..Len(u) : u[i] \in Digits

\* the natural number written by at most four digits ds, as an integer
RECURSIVE SmallValue(_)
SmallValue(ds) ==
  IF ds = <<>> THEN 0
  ELSE 10 * SmallValue(SubSeq(ds, 1, Len(ds) - 1)) + DigitVal(ds[Len(ds)])

\* the natural number written by the digits ds, four digits at a time
RECURSIVE DigitsValue(_)
DigitsValue(ds) ==
  IF Len(ds) <= 4 THEN BigOfInt(SmallValue(ds))
  ELSE BigAdd(BigMulDigit(DigitsValue(SubSeq(ds, 1, Len(ds) - 4)), 10000),
              BigOfInt(SmallValue(SubSeq(ds, Len(ds) - 3, Len(ds)))))

RECURSIVE Pow10(_)
Pow10(k) ==
  IF k = 0 THEN <<1>>
  ELSE IF k < 4 THEN BigMulDigit(Pow10(k - 1), 10)
  ELSE BigMulDigit(Pow10(k - 4), 10000)

\* Number(str) for a str with isNumber(str): the double nearest to the
\* decimal numeral
ToNumber(cs) ==
  LET u    == Unsigned(cs)
      neg  == cs # <<>> /\ Head(cs) = "-"
      ds   == SelectSeq(u, LAMBDA c : c \in Digits)
      dot  == IF CountOf(u, ".") = 0 THEN Len(u) + 1
              ELSE CHOOSE i \in 1..Len(u) : u[i] = "."
      frac == Len(u) + 1 - dot - (IF dot > Len(u) THEN 0 ELSE 1)
      mag  == DigitsValue(ds)
  IN  IF mag = <<>> THEN Zero(neg) ELSE RoundRatio(neg, mag, Pow10(frac), 0)

\* the value a parse function returns, with the position it leaves behind
Parsed(res, p) == [type |-> res.type, value |-> res.value, pos |-> p]

RECURSIVE numberEnd(_, _)
numberEnd(items, p) ==
  IF hasNext(items, p) /\ peek(items, p, 0) \in Digits \cup {"."}
    THEN numberEnd(items, p + 1)
    ELSE p

parse_number(items, p) ==
  LET location  == p
      p1        == IF peek(items, p, 0) = "-" THEN next(items, p) ELSE p
      p2        == numberEnd(items, p1)
      numberStr == SubSeq(items, location + 1, p2)
  IN  IF ~isNumber(numberStr)
        THEN Parsed(error(<<LocatedError(
                 "Invalid number format '" \o Join(numberStr) \o "'",
                 location, Len(numberStr))>>), p2)
        ELSE Parsed(ok(Num(location, ToNumber(numberStr))), p2)

\* offset of the closing quote at or after p, or Len(items) when there is none
RECURSIVE stringEnd(_, _)
stringEnd(items, p) ==
  IF hasNext(items, p) /\ peek(items, p, 0) # "\""
    THEN stringEnd(items, p + 1)
    ELSE p

\* parse_string reporting only the characters after the quote
parse_string_short(items, p) ==
  LET location == p
      openQuote == peek(items, p, 0)
      p1 == next(items, p)
      q  == stringEnd(items, p1)
      stringValue == SubSeq(items, p1 + 1, q)
  IN  IF openQuote # "\""
        THEN Parsed(error(<<LocatedError("Missing opening \"", location, 1)>>), p1)
      ELSE IF hasNext(items, q)
        THEN Parsed(ok(Str(location, Join(stringValue))), q + 1)
      ELSE Parsed(error(<<LocatedError("Unterminated string literal",
                            location, Len(stringValue))>>), q)

parse_string(items, p) ==
  LET location == p
      openQuote == peek(items, p, 0)
      p1 == next(items, p)
      q  == stringEnd(items, p1)
      stringValue == SubSeq(items, p1 + 1, q)
  IN  IF openQuote # "\""
        THEN Parsed(error(<<LocatedError("Missing opening \"", location, 1)>>), p1)
      ELSE IF hasNext(items, q)
        THEN Parsed(ok(Str(location, Join(stringValue))), q + 1)
      ELSE Parsed(error(<<LocatedError("Unterminated string literal",
                            location, Len(stringValue) + 1)>>), q)

RECURSIVE symbolEnd(_, _)
symbolEnd(items, p) ==
  IF hasNext(items, p)
     /\ peek(items, p, 0) \notin WhiteSpace \cup {"(", ")", "\""}
    THEN symbolEnd(items, p + 1)
    ELSE p

parse_symbol(items, p) ==
  LET location == p
      q == symbolEnd(items, p)
      symbolValue == SubSeq(items, p + 1, q)
  IN  IF symbolValue = <<>>
        THEN Parsed(error(<<LocatedError("Empty symbol", location, 1)>>), q)
        ELSE Parsed(ok(Symbol(location, Join(symbolValue))), q)

RECURSIVE parse_inner(_, _)
RECURSIVE parse_list(_, _)
RECURSIVE parse_list_loop(_, _, _, _)

parse_inner(items, p) ==
  LET location == p IN
  IF ~hasNext(items, p)
    THEN Parsed(error(<<LocatedError("Unexpected end of input", location, NoLoc)>>), p)
  ELSE
    LET p1 == skipWhitespace(items, p)
        nxt == peek(items, p1, 0)
    IN  IF nxt = "(" THEN parse_list(items, p1)
        ELSE IF nxt = "\"" THEN parse_string(items, p1)
        ELSE IF isNumber(IF nxt = NoChar THEN <<>> ELSE <<nxt>>)
                \/ (nxt = "-" /\ isNumber(IF peek(items, p1, 1) = NoChar
                                            THEN <<>> ELSE <<peek(items, p1, 1)>>))
          THEN parse_number(items, p1)
        ELSE parse_symbol(items, p1)

\* the while (true) loop of parse_list
parse_list_loop(items, p, location, exprs) ==
  LET p1 == skipWhitespace(items, p) IN
  IF peek(items, p1, 0) = ")"
    THEN Parsed(ok(List(location, exprs)), next(items, p1))
  ELSE IF ~hasNext(items, p1)
    THEN Parsed(error(<<LocatedError(
             "Unexpected end of input - missing closing parenthesis",
             location, NoLoc)>>), p1)
  ELSE
    LET res == parse_inner(items, p1) IN
    IF isErr(res) THEN res
    ELSE parse_list_loop(items, res.pos, location, Append(exprs, res.value))

\* parse_list taking the list's location after its opening parenthesis
parse_list_located_inside(items, p) ==
  LET p1 == next(items, p)
      location == p1
  IN  IF peek(items, p, 0) # "("
        THEN Parsed(error(<<LocatedError("Missing opening (", p1, 1)>>), p1)
        ELSE parse_list_loop(items, p1, location, <<>>)

parse_list(items, p) ==
  LET location == p
      p1 == next(items, p)
  IN  IF peek(items, p, 0) # "("
        THEN Parsed(error(<<LocatedError("Missing opening (", p1, 1)>>), p1)
        ELSE parse_list_loop(items, p1, location, <<>>)

\* parse_iteration without the driver's iterator.next() after a failure
parse_iteration_no_advance(items, p) ==
  LET p1 == skipWhitespace(items, p) IN
  IF ~hasNext(items, p1)
    THEN [kind |-> "break", errors |-> <<>>, exprs |-> <<>>,
          innerStart |-> p1, innerEnd |-> p1, pos |-> p1]
  ELSE
    LET res == parse_inner(items, p1) IN
    IF isOk(res)
      THEN [kind |-> "ok", errors |-> <<>>, exprs |-> <<res.value>>,
            innerStart |-> p1, innerEnd |-> res.pos, pos |-> res.pos]
      ELSE [kind |-> "error", errors |-> res.value, exprs |-> <<>>,
            innerStart |-> p1, innerEnd |-> res.pos, pos |-> res.pos]

\* one iteration of the driver loop of parse, started with hasNext true:
\* what it appends to errors/program and where it leaves the cursor
parse_iteration(items, p) ==
  LET p1 == skipWhitespace(items, p) IN
  IF ~hasNext(items, p1)
    THEN [kind |-> "break", errors |-> <<>>, exprs |-> <<>>,
          innerStart |-> p1, innerEnd |-> p1, pos |-> p1]
  ELSE
    LET res == parse_inner(items, p1) IN
    IF isOk(res)
      THEN [kind |-> "ok", errors |-> <<>>, exprs |-> <<res.value>>,
            innerStart |-> p1, innerEnd |-> res.pos, pos |-> res.pos]
      ELSE [kind |-> "error", errors |-> res.value, exprs |-> <<>>,
            innerStart |-> p1, innerEnd |-> res.pos,
            pos |-> next(items, res.pos)]

\* parse_result returning the partial program when a single error was found
parse_result_partial(errs, prog) ==
  IF Len(errs) > 1 THEN error(errs) ELSE ok(prog)

\* the value parse returns once the loop has ended
parse_result(errs, prog) == IF Len(errs) > 0 THEN error(errs) ELSE ok(prog)

\* parse(input) as a function: the driver loop run to its end
RECURSIVE parse_loop(_, _, _, _)
parse_loop(items, p, errs, prog) ==
  IF ~hasNext(items, p) THEN parse_result(errs, prog)
  ELSE LET it == parse_iteration(items, p)
       IN  parse_loop(items, it.pos, errs \o it.errors, prog \o it.exprs)

parse(items) == parse_loop(items, 0, <<>>, <<>>)

-----------------------------------------------------------------------------
(* environment.ts: SymbolTable.  A table is a function from names to Expr; *)
(* a scope chain is the sequence of tables from the root (first) to the    *)
(* table the handle designates (last), each one's parent being the one     *)
(* before it.                                                              *)

EmptyTable == [n \in {} |-> Undefined]

\* Map.set on one table
MapSet(table, name, expr) ==
  [n \in DOMAIN table \cup {name} |-> IF n = name THEN expr ELSE table[n]]

\* lookup searching from the root down: the outermost binding wins
RECURSIVE lookup_outermost(_, _)
lookup_outermost(tables, sym) ==
  IF tables = <<>> THEN Undefined
  ELSE IF sym.value \in DOMAIN tables[1]
    THEN tables[1][sym.value]
    ELSE lookup_outermost(Tail(tables), sym)

\* SymbolTable.lookup: the local table first, then the parent chain
RECURSIVE lookup(_, _)
lookup(tables, sym) ==
  IF tables = <<>> THEN Undefined
  ELSE LET local == tables[Len(tables)] IN
       IF sym.value \in DOMAIN local
         THEN local[sym.value]
         ELSE lookup(SubSeq(tables, 1, Len(tables) - 1), sym)

\* SymbolTable.set: writes into the table the handle designates
set(tables, sym, expr) ==
  [tables EXCEPT ![Len(tables)] = MapSet(@, sym.value, expr)]

\* enterScope handing back the table itself instead of a child of it
enterScope_same_table(tables) == tables

\* SymbolTable.enterScope: a new empty child of the designated table
enterScope(tables) == Append(tables, EmptyTable)

\* SymbolTable.exitScope: the parent chain (<<>> stands for null)
exitScope(tables) == SubSeq(tables, 1, Len(tables) - 1)

hasLocal(tables, sym) == sym.value \in DOMAIN tables[Len(tables)]

\* the local names (the source returns them in insertion order)
getLocalSymbols(tables) == DOMAIN tables[Len(tables)]

-----------------------------------------------------------------------------
(* canvas.ts: MockCanvas, the surface run draws on by default *)

MockCanvas ==
  [fillStyle |-> "#000000", strokeStyle |-> "#000000", operations |-> <<>>]

\* getOperations(): a copy of the recorded calls
getOperations(canvas) == canvas.operations

\* clearOperations(): forgets the recorded calls, keeps the styles
clearOperations(canvas) == [canvas EXCEPT !.operations = <<>>]

\* MockCanvas's methods (beginPath, rect, clearRect, ...) push {type, args}
\* on operations
CanvasOp(canvas, type, args) ==
  [canvas EXCEPT !.operations = Append(@, [type |-> type, args |-> args])]

-----------------------------------------------------------------------------
(* interpreter.ts.  An Environment is {symbolTable, canvas}; in the model  *)
(* env.tables is the scope chain ending in env's symbolTable and           *)
(* env.canvas the surface.  Two ghost fields record what the evaluator     *)
(* did: env.trace, for the expression at each source offset, the number    *)
(* of calls of evaluate on it and the Result of the latest one; and        *)
(* env.loops, how each call of evaluate_while returned.  Every evaluation  *)
(* function returns its Result together with the Environment as it has     *)
(* left it.                                                                *)

\* while's iteration cap
LoopGuard == 1000000

okE(env, v) == [type |-> "ok", value |-> v, env |-> env]
locatedError(env, message, location) ==
  [type |-> "error", value |-> LocatedError(message, location, NoLoc),
   env |-> env]
\* the Result proper, as the caller of run sees it
Result(r) == [type |-> r.type, value |-> r.value]

\* ghost: one more call of evaluate on the expression at offset loc
Visit(env, loc) ==
  [env EXCEPT !.trace =
     IF loc \in DOMAIN @ THEN [@ EXCEPT ![loc].calls = @ + 1]
     ELSE @ @@ (loc :> [calls |-> 1, result |-> NotYet])]
\* ghost: that call has returned r
Returned(r, loc) == [r EXCEPT !.env.trace[loc].result = Result(r)]
\* the number of calls of evaluate on the expression at loc so far
Calls(env, loc) == IF loc \in DOMAIN env.trace THEN env.trace[loc].calls ELSE 0
\* the Result of the latest completed call of evaluate on it
LastResult(env, loc) ==
  IF loc \in DOMAIN env.trace THEN env.trace[loc].result ELSE NotYet

\* the names the evaluator dispatches as built-ins (consts.ts)
BUILTIN_SYMBOLS ==
  {"+", "-", "*", "/", ">", ">=", "<", "<=", "=", "if", "let", "set",
   "while", "rgb", "stroke", "fill", "noStroke", "noFill", "rect", "line",
   "animate"}

\* the second location whatever the first
LocOr_second(a, b) == b

\* `a || b` on two optional locations: 0 and undefined are both falsy
LocOr(a, b) == IF a = NoLoc \/ a = 0 THEN b ELSE a

\* first.value === arg.value for two values of one type: on numbers NaN
\* equals nothing and +0 equals -0
StrictEq(first, arg) ==
  IF first.type = "number" THEN NumEq(first.value, arg.value)
  ELSE first.value = arg.value

\* the truthiness switch with the string case never truthy
Truthiness_string_falsy(condition) ==
  CASE condition.type = "boolean" -> IF condition.value THEN "true" ELSE "false"
    [] condition.type = "number"  -> IF ~NumIsZero(condition.value) THEN "true" ELSE "false"
    [] condition.type = "string"  -> "false"
    [] OTHER -> "unsupported"

\* the truthiness switch of if and while; "unsupported" is its default case
Truthiness(condition) ==
  CASE condition.type = "boolean" -> IF condition.value THEN "true" ELSE "false"
    [] condition.type = "number"  -> IF ~NumIsZero(condition.value) THEN "true" ELSE "false"
    [] condition.type = "string"  -> IF condition.value # "" THEN "true" ELSE "false"
    [] OTHER -> "unsupported"

RECURSIVE evaluate(_, _)
RECURSIVE evaluate_list(_, _)
RECURSIVE evaluate_builtin(_, _, _)
RECURSIVE number_loop(_, _, _, _, _)
RECURSIVE compare_loop(_, _, _, _)
RECURSIVE evaluate_equal(_, _)
RECURSIVE equal_loop(_, _, _, _)
RECURSIVE evaluate_if(_, _)
RECURSIVE evaluate_let(_, _)
RECURSIVE let_bindings(_, _, _)
RECURSIVE let_body(_, _, _, _)
RECURSIVE evaluate_while(_, _)
RECURSIVE while_pass(_, _, _)
RECURSIVE while_passes(_, _, _, _)
RECURSIVE while_loop(_, _, _, _, _)
RECURSIVE while_body(_, _, _)
RECURSIVE evaluate_rgb(_, _)
RECURSIVE evaluate_stroke(_, _)
RECURSIVE evaluate_fill(_, _)
RECURSIVE evaluate_set(_, _)

\* evaluate_symbol looking the name up before the two literals
evaluate_symbol_lookup_first(env, symbol) ==
  LET val == lookup(env.tables, symbol) IN
  IF val.type # "undefined" THEN okE(env, val)
  ELSE IF symbol.value = "true" THEN okE(env, Bool(NoLoc, TRUE))
  ELSE IF symbol.value = "false" THEN okE(env, Bool(NoLoc, FALSE))
  ELSE locatedError(env, "Symbol " \o symbol.value \o " undefined",
                    symbol.location)

evaluate_symbol(env, symbol) ==
  IF symbol.value = "true" THEN okE(env, Bool(NoLoc, TRUE))
  ELSE IF symbol.value = "false" THEN okE(env, Bool(NoLoc, FALSE))
  ELSE LET val == lookup(env.tables, symbol) IN
       IF val.type # "undefined" THEN okE(env, val)
       ELSE locatedError(env, "Symbol " \o symbol.value \o " undefined",
                         symbol.location)

evaluate(environment0, expr) ==
  LET env == Visit(environment0, expr.location) IN
  Returned(CASE expr.type = "list"   -> evaluate_list(env, expr)
             [] expr.type = "symbol" -> evaluate_symbol(env, expr)
             [] OTHER                -> okE(env, expr),
           expr.location)

evaluate_list(env, list) ==
  IF Len(list.elements) = 0
    THEN locatedError(env, "Cannot evaluate empty list", list.location)
  ELSE LET first == list.elements[1] IN
       IF first.type = "symbol" /\ first.value \in BUILTIN_SYMBOLS
         THEN evaluate_builtin(env, first.value, Tail(list.elements))
         ELSE locatedError(env, "Cannot evaluate list [object Object]",
                           list.location)

evaluate_builtin(env, builtinName, args) ==
  CASE builtinName = "+"  -> number_loop(env, "+", args, 1, Int2Num(0))
    [] builtinName = "-"  -> number_loop(env, "-", args, 1, Int2Num(0))
    [] builtinName = "*"  -> number_loop(env, "*", args, 1, Int2Num(1))
    [] builtinName = "/"  ->
         IF Len(args) = 0
           THEN locatedError(env, "Division requires at least one argument", NoLoc)
           ELSE number_loop(env, "/", args, 1, Int2Num(0))
    [] builtinName = ">"  ->
         IF Len(args) < 2
           THEN locatedError(env, "Greater than (>) requires at least 2 arguments", NoLoc)
           ELSE compare_loop(env, ">", args, 1)
    [] builtinName = ">=" ->
         IF Len(args) < 2
           THEN locatedError(env,
                  "Greater than or equal (>=) requires at least 2 arguments", NoLoc)
           ELSE compare_loop(env, ">=", args, 1)
    [] builtinName = "<"  ->
         IF Len(args) < 2
           THEN locatedError(env, "Less than (<) requires at least 2 arguments", NoLoc)
           ELSE compare_loop(env, "<", args, 1)
    [] builtinName = "<=" ->
         IF Len(args) < 2
           THEN locatedError(env,
                  "Less than or equal (<=) requires at least 2 arguments", NoLoc)
           ELSE compare_loop(env, "<=", args, 1)
    [] builtinName = "="     -> evaluate_equal(env, args)
    [] builtinName = "if"    -> evaluate_if(env, args)
    [] builtinName = "let"   -> evaluate_let(env, args)
    [] builtinName = "set"   -> evaluate_set(env, args)
    [] builtinName = "while" -> evaluate_while(env, args)
    [] builtinName = "rgb"   -> evaluate_rgb(env, args)
    [] builtinName = "stroke" -> evaluate_stroke(env, args)
    [] builtinName = "fill"  -> evaluate_fill(env, args)
    [] OTHER ->
         locatedError(env, "Unimplemented built-in function " \o builtinName,
                      NoLoc)

\* the operation's name in the type error of evaluate_add / _subtract /
\* _multiply / _divide
OperationName(op) ==
  CASE op = "+" -> "Addition" [] op = "-" -> "Subtraction"
    [] op = "*" -> "Multiplication" [] op = "/" -> "Division"

\* The argument loops of evaluate_add, evaluate_subtract, evaluate_multiply
\* and evaluate_divide (args non-empty for "/"): argument i (1-based) is
\* evaluated, must be a number, and is folded into acc.  With one argument
\* "-" negates and "/" takes the reciprocal; with several, the first
\* argument of "-" and "/" starts the fold and later zero divisors fail.
\* number_loop evaluating the next argument before it reports a non-number
number_loop_late(env, op, args, i, acc) ==
  IF i > Len(args) THEN okE(env, Num(NoLoc, acc))
  ELSE
    LET evaluatedResult == evaluate(env, args[i])
        evaluated == evaluatedResult.value
        e == evaluatedResult.env
        unary == Len(args) = 1
    IN  IF ~isOk(evaluatedResult) THEN evaluatedResult
        ELSE IF evaluated.type # "number"
          THEN locatedError(
                 IF i < Len(args) THEN evaluate(e, args[i + 1]).env ELSE e,
                 OperationName(op) \o " requires numbers, got " \o evaluated.type,
                 args[i].location)
        ELSE IF op = "/" /\ (unary \/ i > 1) /\ NumIsZero(evaluated.value)
          THEN locatedError(e, "Division by zero", args[i].location)
        ELSE number_loop(e, op, args, i + 1,
               CASE op = "+" -> NumAdd(acc, evaluated.value)
                 [] op = "*" -> NumMul(acc, evaluated.value)
                 [] op = "-" -> IF unary THEN NumNeg(evaluated.value)
                                ELSE IF i = 1 THEN evaluated.value
                                ELSE NumSub(acc, evaluated.value)
                 [] op = "/" -> IF unary THEN NumDiv(Int2Num(1), evaluated.value)
                                ELSE IF i = 1 THEN evaluated.value
                                ELSE NumDiv(acc, evaluated.value))

number_loop(env, op, args, i, acc) ==
  IF i > Len(args) THEN okE(env, Num(NoLoc, acc))
  ELSE
    LET evaluatedResult == evaluate(env, args[i])
        evaluated == evaluatedResult.value
        e == evaluatedResult.env
        unary == Len(args) = 1
    IN  IF ~isOk(evaluatedResult) THEN evaluatedResult
        ELSE IF evaluated.type # "number"
          THEN locatedError(e, OperationName(op) \o " requires numbers, got "
                                 \o evaluated.type, args[i].location)
        ELSE IF op = "/" /\ (unary \/ i > 1) /\ NumIsZero(evaluated.value)
          THEN locatedError(e, "Division by zero", args[i].location)
        ELSE number_loop(e, op, args, i + 1,
               CASE op = "+" -> NumAdd(acc, evaluated.value)
                 [] op = "*" -> NumMul(acc, evaluated.value)
                 [] op = "-" -> IF unary THEN NumNeg(evaluated.value)
                                ELSE IF i = 1 THEN evaluated.value
                                ELSE NumSub(acc, evaluated.value)
                 [] op = "/" -> IF unary THEN NumDiv(Int2Num(1), evaluated.value)
                                ELSE IF i = 1 THEN evaluated.value
                                ELSE NumDiv(acc, evaluated.value))

\* the comparisons with < admitting equal operands
Relation_less_or_equal(op, l, r) ==
  CASE op = ">"  -> NumLt(r, l)
    [] op = ">=" -> NumLe(r, l)
    [] op = "<"  -> NumLe(l, r)
    [] op = "<=" -> NumLe(l, r)

\* the relation each of the four comparison functions tests on a pair
Relation(op, l, r) ==
  CASE op = ">"  -> NumLt(r, l)
    [] op = ">=" -> NumLe(r, l)
    [] op = "<"  -> NumLt(l, r)
    [] op = "<=" -> NumLe(l, r)

\* The pair loop of evaluate_greater_than / _greater_equal / _less_than /
\* _less_equal: pair i evaluates args[i] and then args[i + 1] (both anew),
\* requires two numbers and returns false at the first pair not related.
compare_loop(env, op, args, i) ==
  IF i > Len(args) - 1 THEN okE(env, Bool(NoLoc, TRUE))
  ELSE
    LET leftResult == evaluate(env, args[i]) IN
    IF ~isOk(leftResult) THEN leftResult
    ELSE
      LET rightResult == evaluate(leftResult.env, args[i + 1]) IN
      IF ~isOk(rightResult) THEN rightResult
      ELSE
        LET left == leftResult.value
            right == rightResult.value
            e == rightResult.env
        IN  IF left.type # "number" \/ right.type # "number"
              THEN locatedError(e, "Comparison requires numbers, got "
                                     \o left.type \o " and " \o right.type,
                                LocOr(args[i].location, args[i + 1].location))
            ELSE IF ~Relation(op, left.value, right.value)
              THEN okE(e, Bool(NoLoc, FALSE))
            ELSE compare_loop(e, op, args, i + 1)

evaluate_equal(env, args) ==
  IF Len(args) < 2
    THEN locatedError(env, "Equality (=) requires at least 2 arguments", NoLoc)
  ELSE
    LET firstResult == evaluate(env, args[1]) IN
    IF ~isOk(firstResult) THEN firstResult
    ELSE IF firstResult.value.type = "undefined"
      THEN locatedError(firstResult.env,
             "Cannot evaluate first argument for equality", args[1].location)
    ELSE equal_loop(firstResult.env, args, firstResult.value, 2)

\* the for loop of evaluate_equal; i is 1-based, the message's index 0-based
\* equal_loop refusing arguments of different variants
equal_loop_same_variant(env, args, first, i) ==
  IF i > Len(args) THEN okE(env, Bool(NoLoc, TRUE))
  ELSE
    LET argResult == evaluate(env, args[i])
        arg == argResult.value
        e == argResult.env
    IN  IF ~isOk(argResult) THEN argResult
        ELSE IF arg.type = "undefined"
          THEN locatedError(e, "Cannot evaluate argument " \o ToString(i - 1)
                                 \o " for equality", args[i].location)
        ELSE IF first.type # arg.type \/ first.type \notin {"number", "string", "boolean"}
          THEN locatedError(e, "Equality comparison not supported for type "
                                 \o first.type, args[1].location)
        ELSE IF ~StrictEq(first, arg) THEN okE(e, Bool(NoLoc, FALSE))
        ELSE equal_loop(e, args, first, i + 1)

equal_loop(env, args, first, i) ==
  IF i > Len(args) THEN okE(env, Bool(NoLoc, TRUE))
  ELSE
    LET argResult == evaluate(env, args[i])
        arg == argResult.value
        e == argResult.env
    IN  IF ~isOk(argResult) THEN argResult
        ELSE IF arg.type = "undefined"
          THEN locatedError(e, "Cannot evaluate argument " \o ToString(i - 1)
                                 \o " for equality", args[i].location)
        ELSE IF first.type # arg.type THEN okE(e, Bool(NoLoc, FALSE))
        ELSE IF first.type \notin {"number", "string", "boolean"}
          THEN locatedError(e, "Equality comparison not supported for type "
                                 \o first.type, args[1].location)
        ELSE IF ~StrictEq(first, arg) THEN okE(e, Bool(NoLoc, FALSE))
        ELSE equal_loop(e, args, first, i + 1)

\* evaluate_if evaluating both branches before it chooses
evaluate_if_eager(env, args) ==
  IF Len(args) # 3
    THEN locatedError(env,
      "if requires exactly 3 arguments: (if condition true_expr false_expr)",
      NoLoc)
  ELSE
    LET conditionResult == evaluate(env, args[1])
        trueResult == evaluate(conditionResult.env, args[2])
        falseResult == evaluate(trueResult.env, args[3])
    IN  IF ~isOk(conditionResult) THEN conditionResult
        ELSE IF Truthiness(conditionResult.value) = "true"
          THEN [trueResult EXCEPT !.env = falseResult.env]
          ELSE falseResult

evaluate_if(env, args) ==
  IF Len(args) # 3
    THEN locatedError(env,
      "if requires exactly 3 arguments: (if condition true_expr false_expr)",
      NoLoc)
  ELSE
    LET conditionExpr == args[1]
        trueExpr == args[2]
        falseExpr == args[3]
        conditionResult == evaluate(env, conditionExpr)
        condition == conditionResult.value
        e == conditionResult.env
    IN  IF ~isOk(conditionResult) THEN conditionResult
        ELSE IF condition.type = "undefined"
          THEN locatedError(e, "Cannot evaluate condition for if statement",
                            conditionExpr.location)
        ELSE IF Truthiness(condition) = "unsupported"
          THEN locatedError(e, "Unsupported condition type for if: "
                                 \o condition.type, conditionExpr.location)
        ELSE IF Truthiness(condition) = "true"
          THEN LET result == evaluate(e, trueExpr) IN
               IF ~isOk(result) THEN result
               ELSE IF result.value.type = "undefined"
                 THEN locatedError(result.env,
                        "if true branch produced no result", trueExpr.location)
               ELSE result
          ELSE LET result == evaluate(e, falseExpr) IN
               IF ~isOk(result) THEN result
               ELSE IF result.value.type = "undefined"
                 THEN locatedError(result.env,
                        "if false branch produced no result", falseExpr.location)
               ELSE result

\* the caller going on with the let's child table
CallerEnvironment_keep_scope(caller, r) == r

\* the caller going on with a surface of its own, not the one the let drew on
CallerEnvironment_new_surface(caller, r) ==
  [r EXCEPT !.env.tables = SubSeq(@, 1, Len(caller.tables)),
            !.env.canvas = MockCanvas]

\* the Environment the caller of a let goes on with: its own symbolTable,
\* the let's child table being dropped when evaluate_let returns
CallerEnvironment(caller, r) ==
  [r EXCEPT !.env.tables = SubSeq(@, 1, Len(caller.tables))]

\* (the source's messages put let between backquotes, which a TLA+ string
\* cannot hold)
evaluate_let(env, args) ==
  IF Len(args) < 2
    THEN locatedError(env, "Not enough arguments to let statement",
                      IF Len(args) >= 1 THEN args[1].location ELSE NoLoc)
  ELSE
    LET bindings == args[1]
        expressions == Tail(args)
        scopedEnvironment == [env EXCEPT !.tables = enterScope(@)]
    IN  CallerEnvironment(env,
          IF bindings.type # "list"
            THEN locatedError(scopedEnvironment,
                   "First argument to let must be a list", bindings.location)
            ELSE let_bindings(scopedEnvironment, bindings.elements, expressions))

\* the for loop over the bindings, then the body
let_bindings(env, bindings, expressions) ==
  IF bindings = <<>>
    THEN let_body(env, expressions, 1, Undefined)
  ELSE
    LET binding == Head(bindings) IN
    IF \/ binding.type # "list"
       \/ Len(binding.elements) # 2
       \/ binding.elements[1].type # "symbol"
      THEN locatedError(env, "Bindings must be of form (symbol expr)",
                        binding.location)
    ELSE
      LET sym == binding.elements[1]
          expr == binding.elements[2]
          evaluated_expr == evaluate(env, expr)
          e == evaluated_expr.env
      IN  IF isErr(evaluated_expr) THEN evaluated_expr
          ELSE IF evaluated_expr.value.type = "undefined"
            THEN locatedError(e, "Expression did not evaluate to an expression",
                              expr.location)
          ELSE let_bindings([e EXCEPT !.tables = set(@, sym, evaluated_expr.value)],
                            Tail(bindings), expressions)

\* the body of let returning the Result of its first expression
let_body_first(env, expressions, i, last) ==
  IF i > Len(expressions) THEN [last EXCEPT !.env = env]
  ELSE LET r == evaluate(env, expressions[i])
       IN  let_body(r.env, expressions, i + 1, IF i = 1 THEN r ELSE last)

\* expressions.map(evaluate) followed by results.at(-1): every body
\* expression is evaluated, whatever the earlier ones returned, and the last
\* Result is the let's (expressions is never empty here)
let_body(env, expressions, i, last) ==
  IF i > Len(expressions) THEN [last EXCEPT !.env = env]
  ELSE LET r == evaluate(env, expressions[i])
       IN  let_body(r.env, expressions, i + 1, r)

\* the for loop over the body expressions of one iteration of while
while_body(env, bodyExprs, i) ==
  IF i > Len(bodyExprs) THEN okE(env, Undefined)
  ELSE LET result == evaluate(env, bodyExprs[i])
       IN  IF ~isOk(result) THEN result
           ELSE while_body(result.env, bodyExprs, i + 1)

\* the loop state when evaluate_while returns result; lastCondition is
\* ghost: the Result of the latest evaluation of the condition
WhileReturn(s, result, lastCondition) ==
  [done |-> TRUE, counter |-> s.counter, result |-> result,
   lastCondition |-> lastCondition]

\* One pass of the while (true) of evaluate_while, from the loop state s:
\* either the function returns, or the pass ends with counter++.
while_pass(s, conditionExpr, bodyExprs) ==
  IF s.counter > LoopGuard
    THEN WhileReturn(s, locatedError(s.result.env,
             "Infinite loop protection, passed 1 million iterations",
             conditionExpr.location), s.lastCondition)
  ELSE
    LET conditionResult == evaluate(s.result.env, conditionExpr)
        condition == conditionResult.value
        e == conditionResult.env
    IN  IF ~isOk(conditionResult)
          THEN WhileReturn(s, conditionResult, Result(conditionResult))
        ELSE IF condition.type = "undefined"
          THEN WhileReturn(s, locatedError(e,
                  "Cannot evaluate condition for while statement",
                  conditionExpr.location), Result(conditionResult))
        ELSE IF Truthiness(condition) = "unsupported"
          THEN WhileReturn(s, locatedError(e,
                  "Unsupported condition type for while: " \o condition.type,
                  conditionExpr.location), Result(conditionResult))
        ELSE IF Truthiness(condition) = "false"
          THEN WhileReturn(s, okE(e, Bool(conditionExpr.location, FALSE)),
                           Result(conditionResult))
        ELSE
          LET body == while_body(e, bodyExprs, 1) IN
          IF ~isOk(body)
            THEN WhileReturn(s, body, Result(conditionResult))
            ELSE [done |-> FALSE, counter |-> s.counter + 1, result |-> body,
                  lastCondition |-> Result(conditionResult)]

\* n passes in a row, stopping at the pass that returns.  The passes are
\* run in two halves so that a long loop does not nest n deep.
while_passes(n, s, conditionExpr, bodyExprs) ==
  IF s.done \/ n = 0 THEN s
  ELSE IF n = 1 THEN while_pass(s, conditionExpr, bodyExprs)
  ELSE LET h == n \div 2
           firstHalf == while_passes(h, s, conditionExpr, bodyExprs)
       IN  IF firstHalf.done THEN firstHalf
           ELSE while_passes(n - h, firstHalf, conditionExpr, bodyExprs)

\* The while (true) loop: passes in runs of 1, 2, 4, ... until one
\* returns.  The loop returns at the latest in the pass that finds
\* counter > LoopGuard, which is pass number LoopGuard + 2; `left` counts
\* the passes up to that one, so a loop state that comes back not done
\* is a loop that has not returned by then.
while_loop(s, run, left, conditionExpr, bodyExprs) ==
  IF s.done \/ left = 0 THEN s
  ELSE LET n == IF run < left THEN run ELSE left
       IN  while_loop(while_passes(n, s, conditionExpr, bodyExprs),
                      2 * run, left - n, conditionExpr, bodyExprs)

\* ghost: how a call of evaluate_while ended
LogLoop(s, conditionExpr) ==
  [s.result EXCEPT !.env.loops =
     Append(@, [at |-> conditionExpr.location, returned |-> s.done,
              passes |-> s.counter, lastCondition |-> s.lastCondition,
              type |-> s.result.type,
              false |-> /\ s.result.type = "ok"
                        /\ s.result.value.type = "boolean"
                        /\ s.result.value.value = FALSE])]

evaluate_while(env, args) ==
  IF Len(args) < 1
    THEN locatedError(env,
      "while requires at least 1 argument: (while condition expr1 expr2 ...)",
      NoLoc)
  ELSE LogLoop(while_loop(
                 [done |-> FALSE, counter |-> 0, result |-> okE(env, Undefined),
                  lastCondition |-> NotYet],
                 1, LoopGuard + 2, args[1], Tail(args)),
               args[1])

evaluate_rgb(env, args) ==
  IF Len(args) # 3
    THEN locatedError(env, "rgb requires exactly 3 arguments: (rgb r g b)", NoLoc)
  ELSE
    LET rExpr == args[1]
        gExpr == args[2]
        bExpr == args[3]
        rResult == evaluate(env, rExpr)
        r == rResult.value
    IN  IF ~isOk(rResult) THEN rResult
        ELSE IF r.type # "number"
          THEN locatedError(rResult.env,
                 "rgb red component must be a number, got " \o r.type,
                 rExpr.location)
        ELSE
          LET gResult == evaluate(rResult.env, gExpr)
              g == gResult.value
          IN  IF ~isOk(gResult) THEN gResult
              ELSE IF g.type # "number"
                THEN locatedError(gResult.env,
                       "rgb green component must be a number, got " \o g.type,
                       gExpr.location)
              ELSE
                LET bResult == evaluate(gResult.env, bExpr)
                    b == bResult.value
                IN  IF ~isOk(bResult) THEN bResult
                    ELSE IF b.type # "number"
                      THEN locatedError(bResult.env,
                             "rgb blue component must be a number, got " \o b.type,
                             bExpr.location)
                    ELSE okE(bResult.env,
                           Str(rExpr.location,
                               "rgb(" \o Clamp255(r.value) \o ","
                                      \o Clamp255(g.value) \o ","
                                      \o Clamp255(b.value) \o ")"))

\* evaluate_stroke setting both colors of the surface
evaluate_stroke_both(env, args) ==
  IF Len(args) # 1
    THEN locatedError(env, "stroke requires exactly 1 argument: (stroke color)",
                      NoLoc)
  ELSE
    LET colorExpr == args[1]
        colorResult == evaluate(env, colorExpr)
        color == colorResult.value
    IN  IF ~isOk(colorResult) THEN colorResult
        ELSE IF color.type # "string"
          THEN locatedError(colorResult.env,
                 "stroke requires a string color, got " \o color.type,
                 colorExpr.location)
        ELSE okE([colorResult.env EXCEPT !.canvas.strokeStyle = color.value,
                                         !.canvas.fillStyle = color.value],
                 Undefined)

evaluate_stroke(env, args) ==
  IF Len(args) # 1
    THEN locatedError(env, "stroke requires exactly 1 argument: (stroke color)",
                      NoLoc)
  ELSE
    LET colorExpr == args[1]
        colorResult == evaluate(env, colorExpr)
        color == colorResult.value
    IN  IF ~isOk(colorResult) THEN colorResult
        ELSE IF color.type # "string"
          THEN locatedError(colorResult.env,
                 "stroke requires a string color, got " \o color.type,
                 colorExpr.location)
        ELSE okE([colorResult.env EXCEPT !.canvas.strokeStyle = color.value],
                 Undefined)

evaluate_fill(env, args) ==
  IF Len(args) # 1
    THEN locatedError(env, "fill requires exactly 1 argument: (fill color)", NoLoc)
  ELSE
    LET colorExpr == args[1]
        colorResult == evaluate(env, colorExpr)
        color == colorResult.value
    IN  IF ~isOk(colorResult) THEN colorResult
        ELSE IF color.type # "string"
          THEN locatedError(colorResult.env,
                 "fill requires a string color, got " \o color.type,
                 colorExpr.location)
        ELSE okE([colorResult.env EXCEPT !.canvas.fillStyle = color.value],
                 Undefined)

\* set without the check that the symbol is bound in the scope chain
evaluate_set_unchecked(env, args) ==
  IF Len(args) # 2
    THEN locatedError(env, "set requires 2 arguments",
                      IF Len(args) >= 1 THEN args[1].location ELSE NoLoc)
  ELSE
    LET first == args[1]
        second == args[2]
        symbol == IF first.type = "symbol" THEN okE(env, first)
                  ELSE evaluate(env, first)
    IN  IF isErr(symbol) \/ symbol.value.type # "symbol"
          THEN locatedError(symbol.env,
                 "The first argument to set must be a symbol in scope",
                 first.location)
        ELSE
          LET val == evaluate(symbol.env, second) IN
          IF isErr(val) \/ val.value.type = "undefined"
            THEN locatedError(val.env,
                   "The second argument to set must be an expression",
                   second.location)
            ELSE okE([val.env EXCEPT !.tables = set(@, symbol.value, val.value)],
                     val.value)

evaluate_set(env, args) ==
  IF Len(args) # 2
    THEN locatedError(env, "set requires 2 arguments",
                      IF Len(args) >= 1 THEN args[1].location ELSE NoLoc)
  ELSE
    LET first == args[1]
        second == args[2]
        symbol == IF first.type = "symbol" THEN okE(env, first)
                  ELSE evaluate(env, first)
    IN  IF \/ isErr(symbol)
           \/ symbol.value.type # "symbol"
           \/ lookup(symbol.env.tables, symbol.value).type = "undefined"
          THEN locatedError(symbol.env,
                 "The first argument to set must be a symbol in scope",
                 first.location)
        ELSE
          LET val == evaluate(symbol.env, second) IN
          IF isErr(val) \/ val.value.type = "undefined"
            THEN locatedError(val.env,
                   "The second argument to set must be an expression",
                   second.location)
            ELSE okE([val.env EXCEPT !.tables = set(@, symbol.value, val.value)],
                     val.value)

\* run: the root Environment, a new SymbolTable with no binding and the
\* canvas handed in
run_environment(canvas) ==
  [tables |-> <<EmptyTable>>,
   canvas |-> canvas,
   trace  |-> [l \in {} |-> NotYet],
   loops  |-> <<>>]

-----------------------------------------------------------------------------
(* The source texts the model is run on *)

\* the characters of the exhaustively enumerated texts
Alphabet == {"(", ")", "\"", " ", "1", "-", ".", "a"}

RECURSIVE TextsOfLen(_)
TextsOfLen(n) ==
  IF n = 0 THEN {<<>>}
  ELSE {Append(t, c) : t \in TextsOfLen(n - 1), c \in Alphabet}

\* every text over Alphabet of at most MaxLen characters
ShortTexts == UNION {TextsOfLen(n) : n \in 0..MaxLen}

\* longer texts: tokens that are not numbers, strings and lists left open,
\* closing parentheses that close nothing, nested lists over several lines
LongTexts ==
  {Chars(t) : t \in
    {"123.45.67", "(1.. ) ( (a", " -1.2.3 \"ab", "(+ 1 (- 2..3 4", "(a (b (c\n",
     "(\"a\" (\"b(", "\"a\"1..2\"(", "(a \"(\" (b \")\" (", "((a) (b", "1.2.3 4.5.6 (((",
     "+ 1 2)", ")", "(+ 1 2))", "(a))(b", "a\")",
     "(+ 1\n  (* 2 3)\n  \"s\" )", "  (a(b)c) \"()\" -1 (- 1) ((()))",
     "(+   1\n\t2\n  )", "(a\"b\"1(c)-.5)", "1 2 3",
     "\f1", "(+\f1\r\n2)\f", " \f\n\t\r ", "\f\f\f\f\f",
     "1", "(ab)", "", "  ", "", "\t",
     " 1", "(a b c﻿)", "﻿(+ 1 2) ", "  ﻿"}}

\* sources that hold nothing but white space
BlankTexts == {Chars(t) : t \in {"", " ", " \n\t\r\f ", "", "   ﻿ "}}

\* the side of the square App.tsx clears on the canvas, which it also
\* passes to run as width and height
CanvasSize == 300

\* programs of several top-level expressions, some of which fail
MixedTexts ==
  {
   "(noFill) (stroke \"red\") (rect 1 2 3 4) (+ 1 2) (let ((a (rgb 1 2 3))) (set a 1) (while (< a 3) (set a (+ a 1))) nope) (if (= 1 1) (< 1 2) 3) width",
   "(fill (rgb 1 2 3)) (rgb 4 5 6) (rgb 1 \"g\" 3) (let ((c \"blue\")) c) (set width \"red\") (line 1 2 3 4) (/ 1 0) (while (> 1 2) 1)",
   
   "(set width 0) (< 0 (set width (+ width 1)) 2) width",
   "(< 1 2 3) (> 3 2 1 0) (<= 1 1 2) (>= 2 2 3) (< 1 3 2 nope)",
   "(let ((i 0)) (>= 5 (set i (+ i 1)) (set i (+ i 1)) 0) i)",
   "(+ 1 2)\n(* invalid)\n(- 5 3)",
   "(+ 1 2) (* 10 2) (- 10 5 3) (/ 100 5)",
   "nope 1 (+ 1 \"hello\") 2 () (foo 1) (animate 5 3) \"done\"",
   "(/ 1 0) (/ 0) (/ 8 2 2) (- 4) (+) (*) (-)",
   "(< 1 2 3) (> 1 2) (= 1 1) (= \"a\" 1) (<= 2 2 1) (>= 1)",
   "(rgb 300 -4 1.5) (stroke (rgb 1 2 3)) (fill 3) (noStroke) (noFill 1)",
   "(stroke \"red\") (rect 0 0 width height) (noStroke) (line 0 0 1 1) (rect 1 2)"}

\* (if c X Y) for conditions of every kind and branches with an error or
\* a side effect, in a let that binds w and h and reads them after the if
IfConditions ==
  {"true", "false", "0", "1", "-2", "-0", "0.0", "0.5", "\"\"", "\"a\"", "w", "h",
   "(> 5 3)", "(< 5 3)", "(- 1 1)", "(- 0.3 0.1 0.2)", "nope", "(stroke \"red\")"}
IfBranches ==
  {<<"42", "undefined_symbol">>, <<"undefined_symbol", "42">>,
   <<"(set w 1)", "(set h 2)">>, <<"(fill \"blue\")", "(/ 1 0)">>}
IfTexts ==
  {"(let ((w 0) (h 5)) (if " \o c \o " " \o b[1] \o " " \o b[2] \o ") w h)" :
     c \in IfConditions, b \in IfBranches}
  \cup {"(if (if 1 0 1) (if 0 1 2) (if 1 3 nope))", "(if 1 2) (if) (if 1 2 3 4)",
        "(if true 42 undefined_symbol) (if \"\" undefined_symbol 42)"}

\* the counting loop, with i bound by the enclosing let
CountLet(n) ==
  "(let ((i 0)) (while (< i " \o ToString(n) \o ") (set i (+ i 1))) i)"
CountTexts == {CountLet(n) : n \in 0..MaxCount}

\* loops that stop, and loops that fail before the iteration cap
WhileTexts ==
  {"(while false 1)", "(while 0 1)", "(while \"\" 1)", "(while nope 1)",
   "(while (stroke \"red\") 1)", "(while true nope)", "(while)",
   "(let ((w 300)) (while 1 (set w (- w 100)) (/ 1 w)))",
   "(let ((x 0.3)) (while (* x (- x 0.1 0.2)) (set x 0)) x)",
   "(let ((i 0)) (while (< i 3) (set i (+ i 1)) (/ 1 (- 2 i))) i)",
   "(let ((i 3)) (while i (set i (- i 1)) (let ((j i)) (while (> j 0) (set j (- j 1))))) i)",
   "(let ((s \"a\")) (while s (set s \"\")) s)"}

\* loops whose condition stays truthy
EndlessTexts == {"(while true 1)", "(while \"on\")"}

\* let, set and the scope chain
ShadowNested == "(let ((x 1)) (let ((x 2)) (set x 3) x) x) x"
ScopeTexts ==
  {
   "(let ((true 0) (false true)) (set true false) (if true (set false 7) 2) false true) true false",
   "(let ((true \"t\")) (let ((false true)) (while false 1) (= true false)))",
   
   "(let a 1) (let (a) 1) (let ((a 1 2)) a) (let ((1 a)) 1) (let (()) 1) (let \"s\" (set width 0)) width",
   "(let ((a 1) b) (set width 0)) width (let ((a (set height 1)) (b)) (set width 0)) width height",
   "(let ((a 1) (b (+ a 1)) (c (* b 3)) (d b)) c d) (let ((a 1) (a (+ a 1)) (b a)) b)",
   "(let ((a 1)) (set a 5) a (set a 6) a) (let () 1 2) (let ((a 1)) a (fill \"red\")) (let ((a (fill \"red\"))) 1)",
   "(let ((a nope) (b)) 1) (let ((a 1)) nope a) (let ((a 1)) a nope) (let ((a 2) (b a)) (set b 3) b (* a b))",
   
   "(let ((a 1)) (/ a 0) (set width 7) a) width",
   "(let ((a 1)) a (+ a \"s\")) (let ((a 1)) nope) (let ((a 2)) (set a 3) (* a a))",
   
   "(set width (+ 1 \"a\")) (let ((a 1)) (/ a 0) a) (if (> 1 nope) 1 2) (+ 1 (* 2 (- 3 (/ 4 0))))",
   
   "(let ((y 1)) (set width 5) width) width",
   "(let ((a 1)) (let ((b 2)) (set height (+ a b)))) height",
   
   "(set nope (set width 1)) width nope",
   "(let ((a 1)) (set b (set a 2)) a) b",
   "(let ((a 1)) (let ((b 2)) (set c (set width 9)) b)) width c",
   "(if 1 (set q (fill \"red\")) 2) (while (set r 1) 1) (set true 5) (set false (set width 1)) width",
   ShadowNested,
   "(let ((width 7)) (set width 8) width) width",
   "(let ((x 1)) (let ((y 2)) (set x 3) x) x)",
   "(let ((x 1)) x (let ((x 2)) (set x 3) x) x)",
   "(let ((a 1)) (set a (+ 1 \"a\")))",
   "(let ((i 0)) (< 0 (set i (+ i 1)) 2) i)",
   "(let ((y 1)) (+ y \"a\")) y",
   "(let ((y 1) (z nope)) 1) y z",
   "(let ((y 1)) (let ((z 2)) (set y nope)) z) y z",
   "(let ((a 1)) (let ((b 2)) (let ((c 3)) (set a 9) (+ a b c)))) a b c",
   "(let ((height 1)) (while (< height 3) (set height (+ height 1))) height) height",
   "(let ((a 1) (b (+ a 1))) b) (let (a 1) a) (let ((1 a)) 1) (let 5 1) (let ((a 1)))",
   "(set width 5) width", "(let ((a 1)) (/ a 0) a)",
   "(set width 5) width (+ width 1) (set height (+ width 2)) height width",
   "(set width \"wide\") width (set height true) height width",
   "width height (rect 0 0 width height)",
   "(set nope 1) nope (set 1 2) (set width) (set width nope) width",
   "width (let ((width 7)) (set width 8) width) width",
   "height (let ((height \"h\") (width height)) (set height width)) height width",
   "(let ((x 1)) (let ((x nope)) x) x) (let ((x \"o\")) (let ((x 2) (y x)) (set x y)) x)",
   "(let ((true 0)) true) (let ((false 1)) (set false 5) false) true"}
  \cup {"(set width " \o v \o ") width (let ((width 1)) (set width 2) width) width height"
          : v \in {"5", "0", "-3", "\"s\"", "false"}}
  \cup {"(let ((" \o n \o " " \o v \o ")) (set " \o n \o " 4) " \o n \o ") " \o n
          : n \in {"width", "height", "y"}, v \in {"1", "\"s\""}}

\* (op a1 ... an) for the four arithmetic built-ins, n = 0 .. MaxArgs,
\* over integer literals
RECURSIVE OperandLists(_)
OperandLists(n) ==
  IF n = 0 THEN {""}
  ELSE {s \o " " \o ToString(v) :
          s \in OperandLists(n - 1), v \in (-MaxOperand)..MaxOperand}
LiteralArithTexts ==
  {"(" \o op \o a \o ")" :
     op \in {"+", "-", "*", "/"}, a \in UNION {OperandLists(n) : n \in 0..MaxArgs}}

\* divisions whose operands are computed, bound or not numbers
DivisionTexts ==
  {"(/ 6 (- 2 2))", "(let ((a 3)) (/ a 0))", "(/ (/ 0 5))", "(/ 1 2 (* 3 0) nope)",
   "(let ((w 300) (h 300)) (/ w (- h 300)))", "(/ 1 -0)", "(/ 1 (- 0))", "(/ 0.0)",
   "(/ 1 (* -1 0))", "(/ 1 (- 0.3 0.1 0.2))", "(/ 0.3 0.1)", "(/ 1 49)", "(/ \"a\" 0)", "(/ 1 0 \"a\")", "(/ 1 nope 0)",
   "(/ (- 0))", "(/ 1.5 0.0)", "(/ 7 2)", "(/ 1 3 (+ 1 1))", "(+ 1 (/ 2 (- 1 1)) nope)",
   "(let ((w 1)) (/ 4 (set w 0)) (/ 4 w) (/ w))",
   "(+ 0.1 0.2) (- 0.3 0.1) (* 0.1 3) (* (/ 1 49) 49) (/ 0.1 0.3)"}

\* (op a1 a2 a3), where one argument is not a number and the others set a
\* color of the surface and yield a number
NotNumbers == {"\"s\"", "true", "(fill \"red\")", "(= 1 1)"}
Writers ==
  <<"(let () (fill \"a\") 1)", "(let () (stroke \"b\") 2)", "(let () (fill \"c\") 3)">>
TypeErrorTexts ==
  {"(" \o op \o " "
       \o (IF p = 1 THEN bad ELSE Writers[1]) \o " "
       \o (IF p = 2 THEN bad ELSE Writers[2]) \o " "
       \o (IF p = 3 THEN bad ELSE Writers[3]) \o ")" :
     op \in {"+", "-", "*", "/"}, p \in 1..3, bad \in NotNumbers}
   \cup {"(" \o op \o " " \o bad \o ")" : op \in {"+", "-", "*", "/"}, bad \in NotNumbers}
   \cup {"(+ 1 \"hello\")", "(* 2 (+ 1 (- \"a\" nope)) (fill \"x\"))",
          "(let ((a 1)) (- (set a 2) (set a \"b\") (set a 3)) a)"}

ArithTexts ==
  {Chars(t) : t \in LiteralArithTexts \cup DivisionTexts \cup TypeErrorTexts}
    \cup BlankTexts

\* color settings, a shape, color settings again and another shape
ColorSettings ==
  {"", "(noStroke)", "(noFill)", "(noFill) (noStroke)", "(stroke \"red\") (fill \"none\")",
   "(noStroke) (stroke \"blue\")", "(fill \"red\") (noFill) (stroke \"none\")",
   "(noFill) (fill \"#0f0\")", "(fill \"red\") (noStroke)"}
Shapes ==
  {"(rect 0 0 width height)", "(line 1 2 3 4)", "(rect 1.5 -2 3 4)",
   "(line 0 height width 0)"}
ShapeTexts ==
  {a \o " " \o d1 \o " " \o b \o " " \o d2 :
     a \in ColorSettings, b \in ColorSettings, d1 \in Shapes, d2 \in Shapes}
\* shapes that fail or that are drawn from inside other forms
OtherShapeTexts ==
  {"(line 1 2 3 4)", "(rect 0 0 1 1)",
   "(rect 1 2 3) (line 1 2 3 4 5) (rect 1 2 \"3\" 4) (line 1 nope 3 4) (rect 1 2 3 4)",
   "(noFill) (if 1 (rect 1 2 3 4) (line 1 2 3 4)) (noStroke 1) (line 4 3 2 1)",
   "(let ((a 2)) (noStroke) (rect a a a a)) (stroke (rgb 1 2 3)) (rect 1 1 1 1)",
   "(noStroke) (let ((i 0)) (while (< i 2) (line i i 9 9) (stroke \"red\") (set i (+ i 1))))"}
\* two calls of stroke or fill, with and without a string
ColorCalls ==
  {"(stroke \"red\")", "(fill \"blue\")", "(stroke 1)", "(fill true)", "(stroke)",
   "(fill \"a\" \"b\")", "(stroke (rgb 1 2 3))", "(fill (+ 1 2))", "(stroke nope)",
   "(fill (+ 1 \"a\"))", "(fill \"\")", "(stroke \"none\")", "(fill (rgb 300 -1 2.5))",
   "(stroke (if 1 \"a\" 2))", "(fill (let ((c \"c\")) c))", "(stroke (= 1 1))"}
ColorTexts ==
  {a \o " " \o b : a \in ColorCalls, b \in ColorCalls}
    \cup {"(stroke (fill \"red\")) (fill (noStroke)) (stroke (stroke \"a\"))",
          "(stroke (let () (fill \"red\") \"blue\")) (stroke (fill \"green\")) (fill 5)",
          "(fill (let () (stroke \"red\") 5)) (fill (stroke \"a\") \"b\") (stroke (fill))"}

DrawTexts ==
  {Chars(t) : t \in ShapeTexts \cup OtherShapeTexts \cup ColorTexts} \cup BlankTexts

\* (op a1 ... an) for the four comparisons, n = 0 .. MaxArgs, over integer
\* literals, a string and a boolean
RECURSIVE ComparandLists(_)
ComparandLists(n) ==
  IF n = 0 THEN {""}
  ELSE {s \o " " \o v :
          s \in ComparandLists(n - 1),
          v \in {ToString(i) : i \in (-MaxOperand)..MaxOperand} \cup {"\"s\"", "true"}}
ComparisonTexts ==
  {"(" \o op \o a \o ")" :
     op \in {">", ">=", "<", "<="}, a \in UNION {ComparandLists(n) : n \in 0..MaxArgs}}

\* (= a1 ... an), n = 0 .. MaxArgs, over two literals of each variant
RECURSIVE EqualArgLists(_)
EqualArgLists(n) ==
  IF n = 0 THEN {""}
  ELSE {s \o " " \o v :
          s \in EqualArgLists(n - 1),
          v \in {"1", "2", "\"s\"", "\"t\"", "true", "false"}}
EqualityTexts ==
  {"(=" \o a \o ")" : a \in UNION {EqualArgLists(n) : n \in 0..MaxArgs}}

\* comparisons of computed and bound values
OtherComparisonTexts ==
  {"(let ((w 300) (h 300)) (< 1 (+ 1 1) w) (> h 2.5 (/ 1 2)) (= w h (* 3 100)))",
   "(= (+ 0.1 0.2) 0.3) (< 0.3 (+ 0.1 0.2)) (= 0 -0) (= -0 (- 0) (* -1 0)) (< -0 0) (<= 0 -0)",
   "(= 0.5 0.50 .5) (< 0.1 0.2 0.3) (> 2.5 0.25 -1.5) (= 1. 1) (>= 1.5 1.50 1.25)",
   "(< \"a\" nope) (< 2 1 nope) (>= 1 (fill \"red\")) (= (fill \"red\") 1) (= 1 (noFill))",
   "(let ((a 1) (b \"1\")) (= a b)) (= 1.0 1) (= \"\" \"\") (= (= 1 1) true)"}

CompareTexts ==
  {Chars(t) : t \in ComparisonTexts \cup EqualityTexts \cup OtherComparisonTexts}
    \cup BlankTexts

\* the programs the evaluator is run on
RunTexts ==
  {Chars(t) : t \in MixedTexts \cup IfTexts \cup CountTexts \cup WhileTexts
                       \cup ScopeTexts}
    \cup BlankTexts

-----------------------------------------------------------------------------
(* The state machine: App.tsx's evaluateExpression returns at once on a    *)
(* blank source; otherwise it calls parse(source) and, when that returns   *)
(* Ok, clears the canvas and calls run(program, canvas, 300, 300).  run    *)
(* takes the program and the canvas only.                                  *)

\* !expression.trim(): the source holds nothing but white space
Blank(items) == \A i \in 1..Len(items) : items[i] \in WhiteSpace

\* ctx.clearRect(0, 0, 300, 300) as the surface records it
clearRect(canvas) ==
  CanvasOp(canvas, "clearRect",
           <<Int2Num(0), Int2Num(0), Int2Num(CanvasSize), Int2Num(CanvasSize)>>)

\* ctx.fillStyle = "#000000"; ctx.strokeStyle = "#000000"
defaultStyles(canvas) ==
  [canvas EXCEPT !.fillStyle = "#000000", !.strokeStyle = "#000000"]

InitOn(texts) ==
  /\ input \in texts
  /\ position = 0
  /\ errors = <<>>
  /\ program = <<>>
  /\ iterations = <<>>
  /\ parsed = NotYet
  /\ environment = run_environment(MockCanvas)
  /\ results = <<>>
  /\ pc = "parse"
  /\ scopes = <<>>
  /\ looked = NotYet

\* evaluateExpression on a source that is blank (!expression.trim()): it
\* shows no result and no error, clears the canvas and returns; parse is
\* never called
evaluateExpression_blank ==
  /\ pc = "parse"
  /\ Blank(input)
  /\ results' = <<>>
  /\ errors' = <<>>
  /\ environment' = [environment EXCEPT !.canvas = clearRect(@)]
  /\ pc' = "done"
  /\ UNCHANGED <<input, position, program, iterations, parsed, scopes, looked>>

\* one iteration of the while (iterator.hasNext()) loop of parse
parse_step ==
  /\ pc = "parse"
  /\ ~Blank(input)
  /\ hasNext(input, position)
  /\ \E it \in {parse_iteration(input, position)} :
       /\ position' = it.pos
       /\ errors' = errors \o it.errors
       /\ program' = program \o it.exprs
       /\ iterations' = Append(iterations,
            [from |-> position, kind |-> it.kind, innerStart |-> it.innerStart,
             innerEnd |-> it.innerEnd, to |-> it.pos])
  /\ UNCHANGED <<input, parsed, environment, results, pc, scopes, looked>>

\* the loop of parse has ended and parse returns.  On Err the caller shows
\* the errors and stops; on Ok it clears the canvas, sets the default
\* styles and moves on to run, which builds the root Environment
parse_return ==
  /\ pc = "parse"
  /\ ~Blank(input)
  /\ ~hasNext(input, position)
  /\ parsed' = parse_result(errors, program)
  /\ environment' =
       IF Len(errors) > 0 THEN environment
       ELSE run_environment(defaultStyles(clearRect(environment.canvas)))
  /\ pc' = IF Len(errors) > 0 \/ program = <<>> THEN "done" ELSE "run"
  /\ UNCHANGED <<input, position, errors, program, iterations, results,
                 scopes, looked>>

\* run stopping at the first top-level expression that fails
run_step_until_error ==
  /\ pc = "run"
  /\ Len(results) < Len(program)
  /\ \E r \in {evaluate(environment, program[Len(results) + 1])} :
       /\ results' = Append(results, Result(r))
       /\ environment' = r.env
       /\ pc' = IF Len(results) + 1 = Len(program) \/ isErr(r)
                  THEN "done" ELSE "run"
  /\ UNCHANGED <<input, position, errors, program, iterations, parsed,
                 scopes, looked>>

\* run: program.map's call of evaluate on the next top-level expression
run_step ==
  /\ pc = "run"
  /\ Len(results) < Len(program)
  /\ \E r \in {evaluate(environment, program[Len(results) + 1])} :
       /\ results' = Append(results, Result(r))
       /\ environment' = r.env
       /\ pc' = IF Len(results) + 1 = Len(program) THEN "done" ELSE "run"
  /\ UNCHANGED <<input, position, errors, program, iterations, parsed,
                 scopes, looked>>

Next == evaluateExpression_blank \/ parse_step \/ parse_return \/ run_step

\* every short text, and the longer texts: the parser on all inputs, the
\* evaluator on what parses
Init == InitOn(ShortTexts \cup LongTexts)
Spec == Init /\ [][Next]_vars

\* the evaluator on programs of every built-in
InitRun == InitOn(RunTexts)
SpecRun == InitRun /\ [][Next]_vars

\* the evaluator on the arithmetic forms
InitArith == InitOn(ArithTexts)
SpecArith == InitArith /\ [][Next]_vars

\* the evaluator on the drawing programs
InitDraw == InitOn(DrawTexts)
SpecDraw == InitDraw /\ [][Next]_vars

\* the evaluator on the comparisons
InitCompare == InitOn(CompareTexts)
SpecCompare == InitCompare /\ [][Next]_vars

\* the same with the loops that only the iteration cap ends
InitGuard == InitOn(RunTexts \cup {Chars(t) : t \in EndlessTexts})
SpecGuard == InitGuard /\ [][Next]_vars

-----------------------------------------------------------------------------
(* The SymbolTable class driven directly, as environment.test.ts drives   *)
(* it: scopes[h] is the object with handle h, its parent's handle (0 for  *)
(* null) and its own Map.  A handle's scope chain is the sequence of the  *)
(* Maps from the root down to it, which is what lookup, set and           *)
(* enterScope are defined on.                                             *)

\* the names and values the tables are driven with
TableNames == {"x", "y"}
TableValues == {Num(NoLoc, Int2Num(1)), Str(NoLoc, "two")}

\* the scope chain of handle h: this.parent followed up to null
RECURSIVE ChainOf(_, _)
ChainOf(objects, h) ==
  IF h = 0 THEN <<>>
  ELSE Append(ChainOf(objects, objects[h].parent), objects[h].table)

\* new SymbolTable()
InitTables ==
  /\ input = <<>>
  /\ position = 0
  /\ errors = <<>>
  /\ program = <<>>
  /\ iterations = <<>>
  /\ parsed = NotYet
  /\ environment = run_environment(MockCanvas)
  /\ results = <<>>
  /\ pc = "tables"
  /\ scopes = <<[parent |-> 0, table |-> EmptyTable]>>
  /\ looked = NotYet

\* h.enterScope(): a new object whose parent is h
table_enterScope ==
  /\ pc = "tables"
  /\ Len(scopes) < MaxScopes
  /\ \E h \in 1..Len(scopes) :
       scopes' = Append(scopes,
                   [parent |-> h,
                    table |-> enterScope(ChainOf(scopes, h))[Len(ChainOf(scopes, h)) + 1]])
  /\ looked' = NotYet
  /\ UNCHANGED <<input, position, errors, program, iterations, parsed,
                 environment, results, pc>>

\* h.set(sym, expr)
table_set ==
  /\ pc = "tables"
  /\ \E h \in 1..Len(scopes) : \E name \in TableNames : \E v \in TableValues :
       scopes' = [scopes EXCEPT ![h].table =
                    set(ChainOf(scopes, h), Symbol(NoLoc, name), v)[Len(ChainOf(scopes, h))]]
  /\ looked' = NotYet
  /\ UNCHANGED <<input, position, errors, program, iterations, parsed,
                 environment, results, pc>>

\* h.lookup(sym)
table_lookup ==
  /\ pc = "tables"
  /\ \E h \in 1..Len(scopes) : \E name \in TableNames :
       looked' = [scope |-> h, name |-> name,
                  result |-> lookup(ChainOf(scopes, h), Symbol(NoLoc, name)),
                  before |-> scopes]
  /\ UNCHANGED <<input, position, errors, program, iterations, parsed,
                 environment, results, pc, scopes>>

NextTables == table_enterScope \/ table_set \/ table_lookup
SpecTables == InitTables /\ [][NextTables]_vars

-----------------------------------------------------------------------------
(* Vocabulary of the properties *)

\* run has been handed the parsed program
Running == pc \in {"run", "done"} /\ isOk(parsed)
\* run has returned
RunDone == pc = "done" /\ isOk(parsed)

\* e is the form (name ...)
IsForm(e, name) ==
  /\ e.type = "list"
  /\ Len(e.elements) >= 1
  /\ e.elements[1].type = "symbol"
  /\ e.elements[1].value = name

IsSymbol(e, name) == e.type = "symbol" /\ e.value = name

\* e and the expressions nested in it, in source order
RECURSIVE Nodes(_)
RECURSIVE NodesOfAll(_)
Nodes(e) == IF e.type = "list" THEN <<e>> \o NodesOfAll(e.elements) ELSE <<e>>
NodesOfAll(es) == IF es = <<>> THEN <<>> ELSE Nodes(Head(es)) \o NodesOfAll(Tail(es))

\* the truthiness rule as the specification words it
Truthy(v) ==
  \/ v.type = "number" /\ ~NumEq(v.value, Int2Num(0))
  \/ v.type = "string" /\ v.value # ""
  \/ v.type = "boolean" /\ v.value

\* e is the number n
IsNum(e, n) == e.type = "number" /\ e.value = Int2Num(n)

IsOkValue(r, type, value) ==
  /\ r.type = "ok"
  /\ r.value.type = type
  /\ r.value.value = value

IsError(r, message) == r.type = "error" /\ r.value.message = message

-----------------------------------------------------------------------------
(* C1: run returns exactly one result per top-level expression, in source *)
(* order, and an expression that fails stops none of the later ones: at   *)
(* every moment results[k] is the Result of the evaluation of program[k], *)
(* each top-level expression has been evaluated once or not yet, and when *)
(* run has returned there are as many results as expressions.             *)
C1_OneResultPerExpression ==
  Running =>
    /\ Len(results) <= Len(program)
    /\ RunDone => Len(results) = Len(program)
    /\ \A k \in 1..Len(program) :
         IF k <= Len(results)
           THEN /\ Calls(environment, program[k].location) = 1
                /\ results[k] = LastResult(environment, program[k].location)
           ELSE Calls(environment, program[k].location) = 0

\* run has returned three results or more, one before the last an error
C1_Witness ==
  /\ RunDone
  /\ Len(results) >= 3
  /\ \E k \in 1..(Len(results) - 1) :
       isErr(results[k]) /\ isOk(results[k + 1])

-----------------------------------------------------------------------------
(* C2: the progress of parse's driver loop.                                *)

\* C2, the statement as claimed: every iteration of the driver loop ends
\* further than it started; a successful expression has consumed at least
\* one character; a failed expression is always followed by an advance of
\* at least one character; and no two consecutive iterations start at the
\* same position.
C2_FailureAlwaysAdvances ==
  \A i \in 1..Len(iterations) :
    LET it == iterations[i] IN
    /\ it.to > it.from
    /\ it.kind = "ok" => it.innerEnd > it.innerStart /\ it.to = it.innerEnd
    /\ it.kind = "error" => it.to >= it.innerEnd + 1
    /\ i > 1 => it.from = iterations[i - 1].to /\ it.from > iterations[i - 1].from

\* C2, as the code has it: every iteration of the driver loop ends further
\* than it started and within the input; a successful expression has
\* consumed at least one character; after a failed expression the driver
\* moves the cursor exactly one character on when the failure left it
\* before the end of the input, and not at all when the failure left it at
\* the end of the input, where the failed expression has itself consumed at
\* least one character.  Hence no two consecutive iterations start at the
\* same position, and there are at most as many iterations as characters.
C2_IterationAdvances ==
  /\ Len(iterations) <= Len(input)
  /\ \A i \in 1..Len(iterations) :
       LET it == iterations[i] IN
       /\ it.to > it.from
       /\ it.to <= Len(input)
       /\ it.kind = "ok" => it.innerEnd > it.innerStart /\ it.to = it.innerEnd
       /\ it.kind = "error" =>
            IF it.innerEnd < Len(input) THEN it.to = it.innerEnd + 1
            ELSE it.to = it.innerEnd /\ it.innerEnd > it.innerStart
       /\ i > 1 => it.from = iterations[i - 1].to /\ it.from > iterations[i - 1].from

\* an iteration whose expression failed without consuming a character (an
\* unmatched closing parenthesis) and was followed by an advance of one,
\* and a later iteration whose expression failed at the end of the input
\* and was followed by no advance
C2_Witness ==
  \E i \in 1..Len(iterations) : \E j \in (i + 1)..Len(iterations) :
    /\ iterations[i].kind = "error"
    /\ iterations[i].innerEnd = iterations[i].innerStart
    /\ iterations[i].to = iterations[i].innerEnd + 1
    /\ iterations[j].kind = "error"
    /\ iterations[j].innerEnd = Len(input)
    /\ iterations[j].to = iterations[j].innerEnd
    /\ iterations[j].innerEnd > iterations[j].innerStart

-----------------------------------------------------------------------------
(* C3: parse is all-or-nothing: once it has returned, it has returned Err *)
(* exactly when some iteration's expression failed, Err carries every     *)
(* collected error (at least one), and Ok carries the whole program, one  *)
(* expression per successful iteration.                                   *)
FailedIterations == {i \in 1..Len(iterations) : iterations[i].kind = "error"}
OkIterations == {i \in 1..Len(iterations) : iterations[i].kind = "ok"}

C3_AllOrNothing ==
  parsed # NotYet =>
    /\ isErr(parsed) <=> FailedIterations # {}
    /\ isOk(parsed) <=> FailedIterations = {}
    /\ isErr(parsed) => parsed.value = errors /\ Len(parsed.value) >= Cardinality(FailedIterations)
    /\ isOk(parsed) => parsed.value = program /\ Len(program) = Cardinality(OkIterations)

\* parse has returned Err although some expression of the input parsed
C3_Witness ==
  /\ parsed # NotYet
  /\ isErr(parsed)
  /\ OkIterations # {}

-----------------------------------------------------------------------------
(* C4: for every (if c X Y) that has been evaluated once, c has been      *)
(* evaluated exactly once and, when c yielded a number, a string or a     *)
(* boolean, exactly one of X and Y has been evaluated, once: X when c is  *)
(* truthy (number not 0, string not empty, boolean true), Y otherwise.    *)
(* The other branch has not been evaluated, and neither has any           *)
(* expression nested in it.                                               *)
NotEvaluated(e) ==
  \A j \in 1..Len(Nodes(e)) : Calls(environment, Nodes(e)[j].location) = 0

C4_IfEvaluatesOneBranch ==
  Running =>
    \A k \in 1..Len(results) :
      \A j \in 1..Len(Nodes(program[k])) :
        LET e == Nodes(program[k])[j] IN
        (IsForm(e, "if") /\ Len(e.elements) = 4
           /\ Calls(environment, e.location) = 1) =>
          LET c == e.elements[2]
              X == e.elements[3]
              Y == e.elements[4]
              cr == LastResult(environment, c.location)
          IN  /\ Calls(environment, c.location) = 1
              /\ IF isOk(cr) /\ cr.value.type \in {"number", "string", "boolean"}
                   THEN IF Truthy(cr.value)
                          THEN Calls(environment, X.location) = 1 /\ NotEvaluated(Y)
                          ELSE Calls(environment, Y.location) = 1 /\ NotEvaluated(X)
                   ELSE NotEvaluated(X) /\ NotEvaluated(Y)

\* an if with a truthy condition has returned its first branch's value and
\* its second branch, which would have failed, has not been evaluated
C4_Witness ==
  /\ Running
  /\ Len(results) >= 1
  /\ IsForm(program[1], "let") /\ Len(program[1].elements) >= 3
  /\ LET e == program[1].elements[3] IN
       /\ IsForm(e, "if") /\ Len(e.elements) = 4
       /\ isOk(LastResult(environment, e.location))
       /\ IsSymbol(e.elements[4], "undefined_symbol")
       /\ Calls(environment, e.elements[3].location) = 1

-----------------------------------------------------------------------------
(* C5: the counting loop (while (< i n) (set i (+ i 1))) started with the  *)
(* counter at 0, for every n up to MaxCount, with the counter bound by the *)
(* enclosing let: once run has returned, the while has returned            *)
(* Ok(boolean false), its condition has been evaluated n + 1 times and its *)
(* body exactly n times, and the read of the counter that follows the loop *)
(* yields n.                                                               *)
Counted(loop, n) ==
  /\ Calls(environment, loop.location) = 1
  /\ IsOkValue(LastResult(environment, loop.location), "boolean", FALSE)
  /\ Calls(environment, loop.elements[2].location) = n + 1
  /\ Calls(environment, loop.elements[3].location) = n

C5_CountingLoop ==
  RunDone =>
    \A n \in 0..MaxCount :
      input = Chars(CountLet(n)) =>
        /\ Counted(program[1].elements[3], n)
        /\ IsOkValue(results[1], "number", Int2Num(n))

\* a counting loop of two passes or more has returned and the counter has
\* been read
C5_Witness ==
  /\ RunDone
  /\ \E n \in 2..MaxCount :
       /\ input = Chars(CountLet(n))
       /\ Calls(environment, program[1].elements[3].elements[3].location) = n
       /\ IsOkValue(results[1], "number", Int2Num(n))

-----------------------------------------------------------------------------
(* C6: a top-level while that has failed with the loop-guard error has    *)
(* made exactly LoopGuard (1,000,000) passes, and each of its body        *)
(* expressions has been evaluated exactly LoopGuard times, never a        *)
(* 1,000,001st time.                                                      *)
C6_GuardAfterMillion ==
  Running =>
    \A k \in 1..Len(results) :
      (/\ IsForm(program[k], "while")
       /\ Len(program[k].elements) >= 2
       /\ IsError(results[k],
                  "Infinite loop protection, passed 1 million iterations")) =>
        /\ \A i \in 1..Len(environment.loops) :
             LET l == environment.loops[i] IN
             l.at = program[k].elements[2].location => l.passes = LoopGuard
        /\ \A b \in 3..Len(program[k].elements) :
             Calls(environment, program[k].elements[b].location) = LoopGuard

-----------------------------------------------------------------------------
(* C7: every call of evaluate_while on a condition has returned, and it   *)
(* has returned Ok exactly when the latest evaluation of its condition    *)
(* yielded a falsy number, string or boolean, the value then being the    *)
(* boolean false; in every other case (the condition failed or has no     *)
(* supported type, a body expression failed, the iteration cap was        *)
(* passed) it has returned an error.                                      *)
Falsy(r) ==
  /\ isOk(r)
  /\ r.value.type \in {"number", "string", "boolean"}
  /\ ~Truthy(r.value)

C7_WhileFailsClosed ==
  \A i \in 1..Len(environment.loops) :
    LET l == environment.loops[i] IN
    /\ l.returned
    /\ l.type \in {"ok", "error"}
    /\ l.type = "ok" <=> Falsy(l.lastCondition)
    /\ l.type = "ok" => l.false

\* a loop whose condition was still truthy has been ended by the
\* iteration cap, with an error
C7_Witness ==
  \E i \in 1..Len(environment.loops) :
    LET l == environment.loops[i] IN
    /\ l.returned
    /\ l.passes > 2
    /\ l.type = "error"
    /\ isOk(l.lastCondition) /\ ~Falsy(l.lastCondition)
    /\ \E k \in 1..Len(results) :
         IsError(results[k],
                 "Infinite loop protection, passed 1 million iterations")

-----------------------------------------------------------------------------
(* Vocabulary of the scope properties *)

\* b has the form (symbol expr) of a let binding
IsBinding(b) ==
  /\ b.type = "list"
  /\ Len(b.elements) = 2
  /\ b.elements[1].type = "symbol"

\* the names the binding list of the let form n binds
LetNames(n) ==
  IF IsForm(n, "let") /\ Len(n.elements) >= 3 /\ n.elements[2].type = "list"
    THEN {n.elements[2].elements[b].elements[1].value :
            b \in {c \in 1..Len(n.elements[2].elements) :
                     IsBinding(n.elements[2].elements[c])}}
    ELSE {}

\* the names bound by e or by a let form nested in it
LetBound(e) == UNION {LetNames(Nodes(e)[i]) : i \in 1..Len(Nodes(e))}

\* e holds a (set x ...)
Writes(e, x) ==
  \E i \in 1..Len(Nodes(e)) :
    LET n == Nodes(e)[i] IN
    IsForm(n, "set") /\ Len(n.elements) >= 2 /\ IsSymbol(n.elements[2], x)

-----------------------------------------------------------------------------
(* C8: shadowing.  (a) When a let binds x and its body holds, one after  *)
(* the other, a read of x, a let that binds x again and a second read of  *)
(* x, the second read returns what the first returned, whatever the inner *)
(* let bound x to and set it to in its body.  (b) When a let binds x to a *)
(* literal, holds as its only other body expression a let that binds x    *)
(* again, and ends with a read of x, that read (the outer let's value)    *)
(* yields the literal: the writes made through the inner scope have left  *)
(* the enclosing binding unchanged.                                       *)
C8_ShadowingKeepsOuter ==
  Running =>
    \A k \in 1..Len(results) :
      /\ \A j \in 1..Len(Nodes(program[k])) :
           LET e == Nodes(program[k])[j] IN
           (IsForm(e, "let") /\ Calls(environment, e.location) = 1) =>
             \A b \in 4..(Len(e.elements) - 1) :
               (/\ e.elements[b - 1].type = "symbol"
                /\ e.elements[b - 1].value \in LetNames(e)
                /\ e.elements[b - 1].value \in LetNames(e.elements[b])
                /\ IsSymbol(e.elements[b + 1], e.elements[b - 1].value)
                /\ Calls(environment, e.elements[b + 1].location) = 1) =>
                 /\ isOk(LastResult(environment, e.elements[b - 1].location))
                 /\ LastResult(environment, e.elements[b + 1].location)
                      = LastResult(environment, e.elements[b - 1].location)
      /\ LET e == program[k] IN
         (/\ IsForm(e, "let") /\ Len(e.elements) = 4
          /\ e.elements[2].type = "list" /\ Len(e.elements[2].elements) = 1
          /\ IsBinding(e.elements[2].elements[1])
          /\ e.elements[2].elements[1].elements[2].type \in {"number", "string"}
          /\ e.elements[2].elements[1].elements[1].value \in LetNames(e.elements[3])
          /\ IsSymbol(e.elements[4], e.elements[2].elements[1].elements[1].value)) =>
           /\ isOk(results[k])
           /\ results[k].value = e.elements[2].elements[1].elements[2]

\* a let has shadowed a name of the enclosing let, written it and returned
\* the written value, and the read after it has returned the enclosing
\* let's value
C8_Witness ==
  /\ Running
  /\ \E k \in 1..Len(results) :
       LET e == program[k] IN
       /\ IsForm(e, "let") /\ Len(e.elements) = 5
       /\ e.elements[3].type = "symbol"
       /\ e.elements[3].value \in LetNames(e)
       /\ e.elements[3].value \in LetNames(e.elements[4])
       /\ Writes(e.elements[4], e.elements[3].value)
       /\ IsSymbol(e.elements[5], e.elements[3].value)
       /\ isOk(LastResult(environment, e.elements[4].location))
       /\ isOk(LastResult(environment, e.elements[3].location))
       /\ LastResult(environment, e.elements[4].location)
            # LastResult(environment, e.elements[3].location)
       /\ results[k] = LastResult(environment, e.elements[3].location)

-----------------------------------------------------------------------------
(* C9: let bindings never leak.  Between top-level expressions the        *)
(* current scope is the root scope and it holds exactly the names it held *)
(* when run began (none), whether the expressions so far succeeded or     *)
(* failed; and a top-level read of a name that an earlier top-level       *)
(* expression bound in a let (other than true or false) has returned the  *)
(* error Symbol <name> undefined.                                         *)
C9_LetDoesNotLeak ==
  Running =>
    /\ Len(environment.tables) = 1
    /\ DOMAIN environment.tables[1] = {}
    /\ \A k \in 1..Len(results) :
         (/\ program[k].type = "symbol"
          /\ program[k].value \notin {"true", "false"}
          /\ \E j \in 1..(k - 1) : program[k].value \in LetBound(program[j])) =>
           IsError(results[k], "Symbol " \o program[k].value \o " undefined")

\* a nested let has bound a name and returned a value, and a later
\* top-level read of that name has failed
C9_Witness ==
  /\ Running
  /\ \E k \in 2..Len(results) :
       /\ program[k].type = "symbol"
       /\ isOk(results[1])
       /\ program[k].value \in LetBound(program[1]) \ LetNames(program[1])
       /\ IsError(results[k], "Symbol " \o program[k].value \o " undefined")

-----------------------------------------------------------------------------
(* C10: run starts with width and height bound in the root scope to the   *)
(* numbers passed to run; a top-level read of one of them returns that    *)
(* number as long as no earlier top-level expression holds a set of it,   *)
(* and a top-level read that follows a successful top-level (set x v)     *)
(* returns the value that set returned (v) as long as no expression in    *)
(* between holds another set of x.                                        *)
SeededNames == {"width", "height"}

C10_RootSetPersists ==
  Running =>
    /\ Len(results) = 0 =>
         \A x \in SeededNames :
           IsNum(lookup(environment.tables, Symbol(NoLoc, x)), CanvasSize)
    /\ \A k \in 1..Len(results) :
         (program[k].type = "symbol" /\ program[k].value \in SeededNames) =>
           LET x == program[k].value IN
           /\ (\A m \in 1..(k - 1) : ~Writes(program[m], x)) =>
                /\ isOk(results[k])
                /\ IsNum(results[k].value, CanvasSize)
           /\ \A j \in 1..(k - 1) :
                (/\ IsForm(program[j], "set") /\ Len(program[j].elements) = 3
                 /\ IsSymbol(program[j].elements[2], x)
                 /\ isOk(results[j])
                 /\ \A m \in (j + 1)..(k - 1) : ~Writes(program[m], x)) =>
                  /\ isOk(results[k])
                  /\ results[k].value = results[j].value

-----------------------------------------------------------------------------
(* C11: set requires a binding that exists.  For every evaluated          *)
(* (set s e) whose symbol s is bound by no let of the top-level           *)
(* expression it stands in (so s is bound in no scope of the chain), each *)
(* evaluation has returned the error The first argument to set must be a  *)
(* symbol in scope, located at s; e and everything nested in e has not    *)
(* been evaluated; and no binding of s has been created: the root still   *)
(* holds no name, and a top-level read of s fails with Symbol s           *)
(* undefined.                                                             *)
UnboundSet(k, n) ==
  /\ IsForm(n, "set") /\ Len(n.elements) = 3
  /\ n.elements[2].type = "symbol"
  /\ n.elements[2].value \notin LetBound(program[k])
  /\ Calls(environment, n.location) >= 1

C11_SetNeedsBinding ==
  Running =>
    \A k \in 1..Len(results) :
      \A i \in 1..Len(Nodes(program[k])) :
        LET n == Nodes(program[k])[i] IN
        UnboundSet(k, n) =>
          /\ IsError(LastResult(environment, n.location),
                     "The first argument to set must be a symbol in scope")
          /\ LastResult(environment, n.location).value.location
               = n.elements[2].location
          /\ NotEvaluated(n.elements[3])
          /\ DOMAIN environment.tables[1] = {}
          /\ \A j \in 1..Len(results) :
               (IsSymbol(program[j], n.elements[2].value)
                  /\ n.elements[2].value \notin {"true", "false"}) =>
                 IsError(results[j],
                         "Symbol " \o n.elements[2].value \o " undefined")

\* inside a let, a set of an unbound symbol whose second argument is
\* itself a set has failed, and a later top-level read of the symbol too
C11_Witness ==
  /\ Running
  /\ \E k \in 1..Len(results) : \E j \in (k + 1)..Len(results) :
       \E i \in 2..Len(Nodes(program[k])) :
         LET n == Nodes(program[k])[i] IN
         /\ IsForm(program[k], "let")
         /\ UnboundSet(k, n)
         /\ IsForm(n.elements[3], "set")
         /\ IsSymbol(program[j], n.elements[2].value)
         /\ isErr(results[j])

-----------------------------------------------------------------------------
(* C12: set rebinds the binding it found.  When a let binds x and holds   *)
(* in its body a let that does not bind x (neither itself nor in a let    *)
(* nested in it) and holds exactly one (set x e), which has been          *)
(* evaluated once and has succeeded, the enclosing let's binding of x     *)
(* holds the value of e: the read of x that follows the inner let in the  *)
(* enclosing let's body returns the value that set returned.              *)
SetsOf(e, x) ==
  {i \in 1..Len(Nodes(e)) :
     IsForm(Nodes(e)[i], "set") /\ Len(Nodes(e)[i].elements) = 3
       /\ IsSymbol(Nodes(e)[i].elements[2], x)}

C12_SetRebindsFound ==
  Running =>
    \A k \in 1..Len(results) :
      LET e == program[k] IN
      IsForm(e, "let") =>
        \A b \in 3..(Len(e.elements) - 1) : \A x \in LetNames(e) :
          (/\ IsForm(e.elements[b], "let")
           /\ x \notin LetBound(e.elements[b])
           /\ IsSymbol(e.elements[b + 1], x)
           /\ Calls(environment, e.elements[b + 1].location) = 1
           /\ Cardinality(SetsOf(e.elements[b], x)) = 1) =>
            \A i \in SetsOf(e.elements[b], x) :
              LET n == Nodes(e.elements[b])[i] IN
              (Calls(environment, n.location) = 1
                 /\ isOk(LastResult(environment, n.location))) =>
                /\ isOk(LastResult(environment, e.elements[b + 1].location))
                /\ LastResult(environment, e.elements[b + 1].location).value
                     = LastResult(environment, n.location).value

-----------------------------------------------------------------------------
(* C13: lookup on the SymbolTable class.  After any sequence of           *)
(* enterScope and set calls (on up to MaxScopes objects), every call      *)
(* h.lookup(name) returns the value held by the nearest object on the     *)
(* parent path from h to the root that holds name, returns undefined when *)
(* none on that path holds it, and leaves every object's bindings as      *)
(* they were.                                                             *)

\* the handles on the parent path from h to the root, h included
RECURSIVE PathOf(_, _)
PathOf(objects, h) ==
  IF h = 0 THEN {} ELSE {h} \cup PathOf(objects, objects[h].parent)

\* how many parent links lead from h up to a
RECURSIVE Distance(_, _, _)
Distance(objects, h, a) ==
  IF h = a THEN 0 ELSE 1 + Distance(objects, objects[h].parent, a)

\* the objects on h's path that hold name
Holders(objects, h, name) ==
  {a \in PathOf(objects, h) : name \in DOMAIN objects[a].table}

Nearest(objects, h, name) ==
  IF Holders(objects, h, name) = {} THEN Undefined
  ELSE LET a == CHOOSE c \in Holders(objects, h, name) :
                  \A d \in Holders(objects, h, name) :
                    Distance(objects, h, c) <= Distance(objects, h, d)
       IN  objects[a].table[name]

C13_LookupInnermostWins ==
  looked # NotYet =>
    /\ looked.result = Nearest(looked.before, looked.scope, looked.name)
    /\ scopes = looked.before

\* a lookup from a grandchild has returned the value of the middle scope,
\* which shadows a different value of the root
C13_Witness ==
  /\ looked # NotYet
  /\ looked.scope # 1
  /\ scopes[looked.scope].parent # 0
  /\ scopes[scopes[looked.scope].parent].parent = 1
  /\ Holders(scopes, looked.scope, looked.name) = {1, scopes[looked.scope].parent}
  /\ scopes[1].table[looked.name] # scopes[scopes[looked.scope].parent].table[looked.name]
  /\ looked.result = scopes[scopes[looked.scope].parent].table[looked.name]

-----------------------------------------------------------------------------
(* C14: evaluation errors are surfaced verbatim.  Whenever the latest     *)
(* evaluation of an expression nested (at any depth) in a top-level       *)
(* expression has returned an error, the Result of that top-level         *)
(* expression is the same error: same message, same location.             *)
C14_ErrorsVerbatim ==
  Running =>
    \A k \in 1..Len(results) :
      \A i \in 1..Len(Nodes(program[k])) :
        LET n == Nodes(program[k])[i] IN
        (Calls(environment, n.location) >= 1
           /\ isErr(LastResult(environment, n.location))) =>
          results[k] = LastResult(environment, n.location)

-----------------------------------------------------------------------------
(* Vocabulary of the arithmetic properties *)

\* the evaluated nodes of the program: <<k, i>> is node i of program[k]
NodeIds ==
  {<<k, i>> \in (1..Len(results)) \X (1..80) : i <= Len(Nodes(program[k]))}
NodeAt(id) == Nodes(program[id[1]])[id[2]]

\* the arguments of the form n
ArgsOf(n) == Tail(n.elements)

\* n has been evaluated once, and argument j of it once, yielding a number
ArgIsNumber(n, j) ==
  /\ Calls(environment, ArgsOf(n)[j].location) = 1
  /\ isOk(LastResult(environment, ArgsOf(n)[j].location))
  /\ LastResult(environment, ArgsOf(n)[j].location).value.type = "number"
\* that number
ArgValue(n, j) == LastResult(environment, ArgsOf(n)[j].location).value.value

\* the positions of the divisors of a division of len arguments
Divisors(len) == IF len = 1 THEN {1} ELSE 2..len

-----------------------------------------------------------------------------
(* C15: division by zero.  For every division evaluated once whose        *)
(* argument j is a divisor (any argument after the first, or the single   *)
(* argument of the reciprocal form) that evaluated to the number 0 (of    *)
(* either sign), after                                                    *)
(* arguments 1 .. j - 1 that all evaluated to numbers, with no zero among *)
(* the divisors before j: the division has returned the error Division by *)
(* zero located at argument j.  In particular (/ a 0) does so for every   *)
(* number a, and no division with a zero divisor returns a number.        *)
C15_DivisionByZero ==
  Running =>
    \A id \in NodeIds :
      LET n == NodeAt(id) IN
      (IsForm(n, "/") /\ Calls(environment, n.location) = 1) =>
        \A j \in Divisors(Len(ArgsOf(n))) :
          (/\ j <= Len(ArgsOf(n))
           /\ \A h \in 1..j : ArgIsNumber(n, h)
           /\ NumEq(ArgValue(n, j), Int2Num(0))
           /\ \A h \in Divisors(Len(ArgsOf(n))) :
                h < j => ~NumEq(ArgValue(n, h), Int2Num(0))) =>
            /\ IsError(LastResult(environment, n.location), "Division by zero")
            /\ LastResult(environment, n.location).value.location
                 = ArgsOf(n)[j].location

\* a division whose third argument is a computed zero has failed at it
C15_Witness ==
  /\ Running
  /\ \E id \in NodeIds :
       LET n == NodeAt(id) IN
       /\ IsForm(n, "/") /\ Len(ArgsOf(n)) >= 3
       /\ \A h \in 1..3 : ArgIsNumber(n, h)
       /\ ArgsOf(n)[3].type = "list"
       /\ ~NumEq(ArgValue(n, 2), Int2Num(0)) /\ NumEq(ArgValue(n, 3), Int2Num(0))
       /\ IsError(LastResult(environment, n.location), "Division by zero")

-----------------------------------------------------------------------------
(* C16: arithmetic over integers.  The expected values are computed here  *)
(* in integer arithmetic, apart from the evaluator's numbers.             *)

\* the double a is an integer below 2^30 in magnitude
IsSmallInteger(a) ==
  a.kind = "finite" /\ a.exp >= 0 /\ BigBitLen(a.mant) + a.exp <= 30
\* that integer
IntegerOf(a) ==
  IF a.mant = <<>> THEN 0
  ELSE (IF a.neg THEN -1 ELSE 1) * NumFloor([a EXCEPT !.neg = FALSE])

\* the form n is op applied to integer literals only
IntegerForm(n, op) ==
  /\ IsForm(n, op)
  /\ \A j \in 1..Len(ArgsOf(n)) :
       ArgsOf(n)[j].type = "number" /\ IsSmallInteger(ArgsOf(n)[j].value)
\* its operands
Operands(n) == [j \in 1..Len(ArgsOf(n)) |-> IntegerOf(ArgsOf(n)[j].value)]

\* (...((acc op s[1]) op s[2]) ...) op s[Len(s)]
RECURSIVE IntFold(_, _, _)
IntFold(op, s, acc) ==
  IF s = <<>> THEN acc
  ELSE IntFold(op, Tail(s),
               CASE op = "+" -> acc + Head(s)
                 [] op = "-" -> acc - Head(s)
                 [] op = "*" -> acc * Head(s))

\* (...((acc / s[1]) / s[2]) ...) / s[Len(s)], each quotient a double
RECURSIVE QuotientFold(_, _)
QuotientFold(s, acc) ==
  IF s = <<>> THEN acc
  ELSE QuotientFold(Tail(s), NumDiv(acc, Int2Num(Head(s))))

\* q is a power of two, up to its sign
RECURSIVE IsPowerOfTwo(_)
IsPowerOfTwo(q) ==
  IF q < 0 THEN IsPowerOfTwo(-q)
  ELSE q = 1 \/ (q > 1 /\ q % 2 = 0 /\ IsPowerOfTwo(q \div 2))

\* the evaluation of n returned the integer p
ReturnedInteger(n, p) ==
  LET r == LastResult(environment, n.location) IN
  /\ isOk(r) /\ r.value.type = "number"
  /\ NumEq(r.value.value, Int2Num(p))

\* the evaluation of n returned the double v
ReturnedNumber(n, v) ==
  LET r == LastResult(environment, n.location) IN
  /\ isOk(r) /\ r.value.type = "number"
  /\ NumEq(r.value.value, v)

\* the evaluation of n returned exactly the number p / q, q # 0
ReturnedRatio(n, p, q) ==
  LET r == LastResult(environment, n.location)
      v == r.value.value
      m == (IF v.neg THEN -1 ELSE 1) * (DigitAt(v.mant, 1) + Base * DigitAt(v.mant, 2))
  IN  /\ isOk(r) /\ r.value.type = "number"
      /\ v.kind = "finite" /\ Len(v.mant) <= 2 /\ v.exp \in (-14)..14
      /\ m * Pow2(Max(v.exp, 0)) * q = p * Pow2(Max(-v.exp, 0))

\* Every sum of integer literals evaluated once has returned their sum
\* (0 for none), every product their product (1 for none), every
\* subtraction 0 for none, the negation of a single operand and the left
\* fold ((a1 - a2) - ...) - an of two or more, and every division of two or
\* more operands with non-zero divisors the left fold
\* ((a1 / a2) / ...) / an of doubles, which is a1 / (a2 * ... * an) exactly
\* when the product of the divisors is a power of two.
C16_ArithmeticFolds ==
  Running =>
    \A id \in NodeIds :
      LET n == NodeAt(id)
          a == Operands(n)
      IN
      Calls(environment, n.location) = 1 =>
        /\ IntegerForm(n, "+") => ReturnedInteger(n, IntFold("+", a, 0))
        /\ IntegerForm(n, "*") => ReturnedInteger(n, IntFold("*", a, 1))
        /\ IntegerForm(n, "-") =>
             ReturnedInteger(n, IF Len(a) = 0 THEN 0
                                ELSE IF Len(a) = 1 THEN 0 - a[1]
                                ELSE IntFold("-", Tail(a), a[1]))
        /\ (/\ IntegerForm(n, "/") /\ Len(a) >= 2
            /\ \A j \in 2..Len(a) : a[j] # 0) =>
             /\ ReturnedNumber(n, QuotientFold(Tail(a), Int2Num(a[1])))
             /\ IsPowerOfTwo(IntFold("*", Tail(a), 1)) =>
                  ReturnedRatio(n, a[1], IntFold("*", Tail(a), 1))

\* a subtraction of three operands whose left and right folds differ, and a
\* division of three operands that is not an integer, have been evaluated
C16_Witness ==
  /\ Running
  /\ \E id \in NodeIds :
       LET n == NodeAt(id) IN
       /\ Calls(environment, n.location) = 1
       /\ \/ /\ IntegerForm(n, "-") /\ Len(ArgsOf(n)) = 3
             /\ Operands(n)[3] # 0
             /\ ReturnedInteger(n, Operands(n)[1] - Operands(n)[2] - Operands(n)[3])
          \/ /\ IntegerForm(n, "/") /\ Len(ArgsOf(n)) = 3
             /\ Operands(n) = <<1, 2, -2>>
             /\ ReturnedRatio(n, -1, 4)

-----------------------------------------------------------------------------
(* C17: the position carried by parse errors.                              *)

NumberChars == Digits \cup {"."}
FixedMessages ==
  {"Unterminated string literal",
   "Unexpected end of input - missing closing parenthesis",
   "Unexpected end of input", "Empty symbol", "Missing opening (",
   "Missing opening \""}

\* the iteration of the driver loop that reported errors[j]
FailedAt(j) ==
  CHOOSE i \in FailedIterations :
    Cardinality({h \in FailedIterations : h <= i}) = j

\* The lists open at the end of the text when it is read from offset p:
\* a quote opens or closes a string, and outside strings ( opens a list and
\* ) closes the latest open one; reading stops when the expression started
\* at p is complete.  The result is the stack of the offsets of the open
\* lists, innermost last, and whether the text ends inside a string.
RECURSIVE OpenAtEnd(_, _, _, _)
OpenAtEnd(items, p, stack, inString) ==
  IF p >= Len(items) THEN [stack |-> stack, inString |-> inString]
  ELSE LET c == items[p + 1] IN
       IF inString THEN OpenAtEnd(items, p + 1, stack, c # "\"")
       ELSE IF c = "\"" THEN OpenAtEnd(items, p + 1, stack, TRUE)
       ELSE IF c = "(" THEN OpenAtEnd(items, p + 1, Append(stack, p), FALSE)
       ELSE IF c = ")" THEN
         (IF Len(stack) <= 1 THEN [stack |-> <<>>, inString |-> FALSE]
          ELSE OpenAtEnd(items, p + 1, SubSeq(stack, 1, Len(stack) - 1), FALSE))
       ELSE OpenAtEnd(items, p + 1, stack, FALSE)

\* e reports the invalid number token of n characters at offset l: an
\* optional minus sign and then every digit and point up to the first
\* character that is neither
InvalidNumberAt(e, l, n) ==
  LET token == SubSeq(input, l + 1, l + n) IN
  /\ n >= 1 /\ l >= 0 /\ l + n <= Len(input)
  /\ token[1] \in Digits \cup {"-"}
  /\ \A i \in 2..n : token[i] \in NumberChars
  /\ l + n < Len(input) => input[l + n + 1] \notin NumberChars
  /\ e.message = "Invalid number format '" \o Join(token) \o "'"

\* Every error parse has collected carries the documented position: an
\* invalid number token is reported at the offset of its first character
\* with the token's length; an unterminated string at the offset of its
\* opening quote, with the number of characters after the quote plus one
\* (the string runs to the end of the input); a list that reaches the end
\* of the input unclosed at the offset of its own opening parenthesis, the
\* innermost list open at the end.  Each failed iteration has reported
\* exactly one error.
C17_ErrorPositions ==
  /\ Len(errors) = Cardinality(FailedIterations)
  /\ \A j \in 1..Len(errors) :
       LET e == errors[j]
           open == OpenAtEnd(input, iterations[FailedAt(j)].innerStart, <<>>, FALSE)
       IN
       /\ e.message \notin FixedMessages => InvalidNumberAt(e, e.location, e.length)
       /\ e.message = "Unterminated string literal" =>
            /\ e.location \in 0..(Len(input) - 1)
            /\ input[e.location + 1] = "\""
            /\ \A i \in (e.location + 2)..Len(input) : input[i] # "\""
            /\ e.length = (Len(input) - (e.location + 1)) + 1
       /\ e.message = "Unexpected end of input - missing closing parenthesis" =>
            /\ e.location \in 0..(Len(input) - 1)
            /\ input[e.location + 1] = "("
            /\ ~open.inString
            /\ open.stack # <<>>
            /\ e.location = open.stack[Len(open.stack)]

\* parse has reported an invalid number that is not at the start of the
\* text and, later, either a list nested in another one that the end of the
\* input leaves open or a string of two characters left open
C17_Witness ==
  /\ Len(errors) >= 2
  /\ \E j \in 1..Len(errors) : \E h \in (j + 1)..Len(errors) :
       /\ errors[j].message \notin FixedMessages
       /\ errors[j].location >= 1 /\ errors[j].length >= 3
       /\ \/ /\ errors[h].message = "Unexpected end of input - missing closing parenthesis"
             /\ errors[h].location > iterations[FailedAt(h)].innerStart
          \/ /\ errors[h].message = "Unterminated string literal"
             /\ errors[h].length = 3

-----------------------------------------------------------------------------
(* C18: a closing parenthesis that closes nothing.                         *)

\* message matches /unmatched|parenthesis|paren/i, over the messages the
\* parser can report
NamesParenthesis(message) ==
  message = "Unexpected end of input - missing closing parenthesis"

\* iteration i of the driver loop started an expression on a closing
\* parenthesis, at top level, and no iteration before it failed
UnmatchedClosing(i) ==
  /\ iterations[i].kind = "error"
  /\ iterations[i].innerStart < Len(input)
  /\ input[iterations[i].innerStart + 1] = ")"
  /\ \A h \in 1..(i - 1) : iterations[h].kind # "error"

\* Once parse has returned on a text whose first failure is a closing
\* parenthesis at top level with no opening one to match, as in + 1 2), it
\* has returned Err and the message of the first error names an unmatched
\* parenthesis.
C18_UnmatchedClosingNamed ==
  (parsed # NotYet /\ \E i \in 1..Len(iterations) : UnmatchedClosing(i)) =>
    /\ isErr(parsed)
    /\ NamesParenthesis(parsed.value[1].message)

-----------------------------------------------------------------------------
(* C19: what rect and line issue on the surface.  The expected calls are   *)
(* computed here from the program text, form by form.                     *)

\* a number literal, or one of the two dimensions
PlainNumber(e) ==
  \/ e.type = "number"
  \/ e.type = "symbol" /\ e.value \in {"width", "height"}
PlainValue(e) ==
  IF e.type = "number" THEN e.value
  ELSE Int2Num(CanvasSize)

\* a top-level form that sets a color to a literal or draws a shape from
\* plain numbers
IsColorSetting(e) ==
  \/ (IsForm(e, "stroke") \/ IsForm(e, "fill"))
       /\ Len(e.elements) = 2 /\ e.elements[2].type = "string"
  \/ (IsForm(e, "noStroke") \/ IsForm(e, "noFill")) /\ Len(e.elements) = 1
IsShape(e) ==
  /\ IsForm(e, "rect") \/ IsForm(e, "line")
  /\ Len(e.elements) = 5
  /\ \A j \in 2..5 : PlainNumber(e.elements[j])
PlainDrawing(prog) ==
  \A k \in 1..Len(prog) : IsColorSetting(prog[k]) \/ IsShape(prog[k])

\* the surface after the form e: its two colors and the calls issued
Call(type, args) == [type |-> type, args |-> args]
AfterForm(s, e) ==
  LET v == [j \in 1..4 |-> PlainValue(e.elements[j + 1])] IN
  CASE IsForm(e, "stroke")   -> [s EXCEPT !.stroke = e.elements[2].value]
    [] IsForm(e, "fill")     -> [s EXCEPT !.fill = e.elements[2].value]
    [] IsForm(e, "noStroke") -> [s EXCEPT !.stroke = "none"]
    [] IsForm(e, "noFill")   -> [s EXCEPT !.fill = "none"]
    [] IsForm(e, "rect") ->
         [s EXCEPT !.calls =
            @ \o <<Call("beginPath", <<>>), Call("rect", v)>>
              \o (IF s.fill # "none" THEN <<Call("fill", <<>>)>> ELSE <<>>)
              \o (IF s.stroke # "none" THEN <<Call("stroke", <<>>)>> ELSE <<>>)]
    [] IsForm(e, "line") ->
         [s EXCEPT !.calls =
            @ \o <<Call("beginPath", <<>>), Call("moveTo", <<v[1], v[2]>>),
                   Call("lineTo", <<v[3], v[4]>>)>>
              \o (IF s.stroke # "none" THEN <<Call("stroke", <<>>)>> ELSE <<>>)]

RECURSIVE AfterForms(_, _)
AfterForms(s, prog) ==
  IF prog = <<>> THEN s ELSE AfterForms(AfterForm(s, Head(prog)), Tail(prog))

\* While run evaluates a program of color settings and shapes, the calls
\* issued on the surface since it was cleared are, for each rect
\* evaluated, begin-path, rect(x, y, w, h), then fill exactly when the fill color is not "none",
\* then stroke exactly when the stroke color is not "none", and for each
\* line begin-path, move-to, line-to, then stroke exactly when the stroke
\* color is not "none" and never fill; the colors are those left by the
\* latest stroke, fill, noStroke or noFill evaluated before the shape, and
\* every shape has returned without error.
C19_ShapesFollowColors ==
  (Running /\ PlainDrawing(program)) =>
    LET s == AfterForms([stroke |-> MockCanvas.strokeStyle,
                         fill |-> MockCanvas.fillStyle,
                         calls |-> getOperations(clearRect(MockCanvas))],
                        SubSeq(program, 1, Len(results)))
    IN
    /\ environment.canvas.operations = s.calls
    /\ environment.canvas.strokeStyle = s.stroke
    /\ environment.canvas.fillStyle = s.fill
    /\ \A k \in 1..Len(results) : isOk(results[k])

-----------------------------------------------------------------------------
(* C20: the locations recorded in a parsed program.                        *)

\* the characters of the input from offset l, n of them
TextAt(l, n) == SubSeq(input, l + 1, l + n)

\* the expression e starts at its recorded location
StartsAtLocation(e) ==
  LET l == e.location IN
  /\ l \in 0..(Len(input) - 1)
  /\ e.type = "list" => input[l + 1] = "("
  /\ e.type = "string" =>
       /\ input[l + 1] = "\""
       /\ l + Len(e.value) + 2 <= Len(input)
       /\ TextAt(l + 1, Len(e.value)) = Chars(e.value)
       /\ input[l + Len(e.value) + 2] = "\""
  /\ e.type = "symbol" =>
       /\ l + Len(e.value) <= Len(input)
       /\ TextAt(l, Len(e.value)) = Chars(e.value)
       /\ input[l + 1] \notin WhiteSpace \cup {"(", ")", "\""}
  /\ e.type = "number" =>
       /\ input[l + 1] \in Digits \cup {"-"}
       /\ input[l + 1] = "-" =>
            l + 2 <= Len(input) /\ input[l + 2] \in Digits

\* Once parse has returned Ok, every expression of the program, at every
\* depth, records the offset of its own first character: the opening
\* parenthesis of a list, the opening quote of a string, the first
\* character of a number or of a symbol; and in source order (a list before
\* its elements, an element before the next) the locations strictly
\* increase.
C20_LocationsAreOffsets ==
  (parsed # NotYet /\ isOk(parsed)) =>
    LET all == NodesOfAll(parsed.value) IN
    /\ \A i \in 1..Len(all) : StartsAtLocation(all[i])
    /\ \A i \in 1..(Len(all) - 1) : all[i].location < all[i + 1].location

\* parse has returned a program that starts after white space and holds a
\* list nested in a list, a string and a negative number
C20_Witness ==
  /\ parsed # NotYet /\ isOk(parsed)
  /\ LET all == NodesOfAll(parsed.value) IN
     /\ Len(all) >= 1
     /\ all[1].location >= 2
     /\ \E i \in 1..Len(all) :
          /\ all[i].type = "list"
          /\ \E j \in 1..Len(all[i].elements) :
               all[i].elements[j].type = "list" /\ j >= 2
     /\ \E i \in 1..Len(all) : all[i].type = "string"
     /\ \E i \in 1..Len(all) :
          all[i].type = "number" /\ input[all[i].location + 1] = "-"

-----------------------------------------------------------------------------
(* C21: the arguments of a comparison chain.                               *)

Comparisons == {">", ">=", "<", "<="}
IsComparison(n) == \E op \in Comparisons : IsForm(n, op)

\* For every comparison of three or more arguments evaluated once, no
\* argument has been evaluated more than once, and when the comparison
\* returned true (every pair was compared) each argument has been evaluated
\* exactly once.
C21_ChainArgumentsOnce ==
  Running =>
    \A id \in NodeIds :
      LET n == NodeAt(id) IN
      (/\ IsComparison(n) /\ Len(ArgsOf(n)) >= 3
       /\ Calls(environment, n.location) = 1
       /\ LastResult(environment, n.location) # NotYet) =>
        /\ \A j \in 1..Len(ArgsOf(n)) :
             Calls(environment, ArgsOf(n)[j].location) <= 1
        /\ IsOkValue(LastResult(environment, n.location), "boolean", TRUE) =>
             \A j \in 1..Len(ArgsOf(n)) :
               Calls(environment, ArgsOf(n)[j].location) = 1

-----------------------------------------------------------------------------
(* C22: a let whose body fails.                                            *)

\* the body expressions of the let form n
BodyOf(n) == SubSeq(n.elements, 3, Len(n.elements))

\* For every let evaluated once: when body expression j is the first that
\* returned an error, the let has returned that error and no body
\* expression after j has been evaluated.
C22_LetBodyErrorPropagates ==
  Running =>
    \A id \in NodeIds :
      LET n == NodeAt(id) IN
      (/\ IsForm(n, "let") /\ Len(n.elements) >= 3
       /\ Calls(environment, n.location) = 1
       /\ LastResult(environment, n.location) # NotYet) =>
        \A j \in 1..Len(BodyOf(n)) :
          (/\ Calls(environment, BodyOf(n)[j].location) = 1
           /\ isErr(LastResult(environment, BodyOf(n)[j].location))
           /\ \A h \in 1..(j - 1) :
                isOk(LastResult(environment, BodyOf(n)[h].location))) =>
            /\ LastResult(environment, n.location)
                 = LastResult(environment, BodyOf(n)[j].location)
            /\ \A h \in (j + 1)..Len(BodyOf(n)) : NotEvaluated(BodyOf(n)[h])

-----------------------------------------------------------------------------
(* C23: an argument of +, -, * or / that is not a number.                  *)

Arithmetic == {"+", "-", "*", "/"}
\* the message of the type error of op for a value of the variant type
TypeErrorOf(op, type) ==
  (CASE op = "+" -> "Addition" [] op = "-" -> "Subtraction"
     [] op = "*" -> "Multiplication" [] op = "/" -> "Division")
    \o " requires numbers, got " \o type

\* argument j of n has been evaluated once and yielded a value that is not
\* a number
ArgIsNotNumber(n, j) ==
  /\ Calls(environment, ArgsOf(n)[j].location) = 1
  /\ isOk(LastResult(environment, ArgsOf(n)[j].location))
  /\ LastResult(environment, ArgsOf(n)[j].location).value.type # "number"

\* e is (let () (stroke c) v) or (let () (fill c) v) for a string literal
\* c and a number literal v: it sets a color of the surface and yields v
IsWriter(e) ==
  /\ IsForm(e, "let") /\ Len(e.elements) = 4
  /\ e.elements[2].type = "list" /\ e.elements[2].elements = <<>>
  /\ IsForm(e.elements[3], "stroke") \/ IsForm(e.elements[3], "fill")
  /\ Len(e.elements[3].elements) = 2
  /\ e.elements[3].elements[2].type = "string"
  /\ e.elements[4].type = "number"
\* e is (stroke c) or (fill c) for a string literal c: it sets a color of
\* the surface and yields nothing
IsSetter(e) ==
  /\ IsForm(e, "stroke") \/ IsForm(e, "fill")
  /\ Len(e.elements) = 2
  /\ e.elements[2].type = "string"
\* the color call of a writer or of a setter
ColorCall(e) == IF IsSetter(e) THEN e ELSE e.elements[3]
\* the color it sets, and to what
WrittenStyle(e) ==
  IF IsForm(ColorCall(e), "stroke") THEN "strokeStyle" ELSE "fillStyle"
WrittenColor(e) == ColorCall(e).elements[2].value

\* For every arithmetic form evaluated once whose argument j is the first
\* that yielded a non-number, after numbers only: the form has returned the
\* type error of its operation located at argument j, and no argument to
\* the right of j (nor anything nested in one) has been evaluated.  When
\* the form is the first top-level expression and its arguments other than
\* j set a color of the surface, the surface holds, right after it, for
\* each of its two colors the one set latest by the arguments up to j (j
\* itself counts when it is a stroke or fill call, and otherwise writes
\* nothing), and the color it had when run began if none of them set it.
C23_TypeErrorStopsArguments ==
  Running =>
    \A id \in NodeIds :
      LET n == NodeAt(id)
          a == ArgsOf(n)
      IN
      \A op \in Arithmetic : IsForm(n, op) => \A j \in 1..Len(a) :
        (/\ Calls(environment, n.location) = 1
         /\ \A h \in 1..(j - 1) : ArgIsNumber(n, h)
         /\ op = "/" => \A h \in 2..(j - 1) : ~NumEq(ArgValue(n, h), Int2Num(0))
         /\ ArgIsNotNumber(n, j)) =>
          /\ IsError(LastResult(environment, n.location),
                     TypeErrorOf(op, LastResult(environment, a[j].location).value.type))
          /\ LastResult(environment, n.location).value.location = a[j].location
          /\ \A h \in (j + 1)..Len(a) : NotEvaluated(a[h])
          /\ (/\ id = <<1, 1>> /\ Len(results) = 1
              /\ \A h \in 1..Len(a) : h # j => IsWriter(a[h])
              /\ IsSetter(a[j]) \/ a[j].type # "list" \/ IsForm(a[j], "=")) =>
               \A style \in {"strokeStyle", "fillStyle"} :
                 LET left == {h \in 1..j : (h = j => IsSetter(a[j]))
                                             /\ WrittenStyle(a[h]) = style} IN
                 environment.canvas[style] =
                   IF left = {} THEN MockCanvas[style]
                   ELSE WrittenColor(a[CHOOSE h \in left : \A g \in left : g <= h])

\* a form whose second argument is not a number, after a write that took
\* effect and before a write that did not
C23_Witness ==
  /\ Running /\ Len(results) = 1
  /\ LET n == program[1] IN
     /\ IsForm(n, "-") /\ Len(ArgsOf(n)) = 3
     /\ IsWriter(ArgsOf(n)[1]) /\ IsWriter(ArgsOf(n)[3])
     /\ ArgIsNotNumber(n, 2)
     /\ LastResult(environment, ArgsOf(n)[2].location).value.type = "boolean"
     /\ isErr(results[1])
     /\ environment.canvas.fillStyle = WrittenColor(ArgsOf(n)[1])
     /\ WrittenColor(ArgsOf(n)[3]) # WrittenColor(ArgsOf(n)[1])
     /\ WrittenStyle(ArgsOf(n)[3]) = "fillStyle"
     /\ Calls(environment, ArgsOf(n)[3].location) = 0

-----------------------------------------------------------------------------
(* C24: a comparison given something that is not a number.                 *)

\* a literal: a number, a string, or one of the symbols true and false
IsLiteral(e) ==
  \/ e.type \in {"number", "string"}
  \/ e.type = "symbol" /\ e.value \in {"true", "false"}
\* the variant tag of its value
LiteralType(e) == IF e.type = "symbol" THEN "boolean" ELSE e.type

\* the double v is a multiple of 1/256 that is below 1024 in magnitude and
\* has at most ten significant bits
IsSmallDyadic(v) ==
  v.kind = "finite" /\ BigBitLen(v.mant) <= 10 /\ v.exp \in (-8)..(10 - BigBitLen(v.mant))
\* 256 times such a double, as an integer
Scaled(v) ==
  (IF v.neg THEN -1 ELSE 1) * DigitAt(v.mant, 1) * Pow2(v.exp + 8)

\* the relation of op on two such doubles
Related(op, l, r) ==
  CASE op = ">"  -> Scaled(l) > Scaled(r)
    [] op = ">=" -> Scaled(l) >= Scaled(r)
    [] op = "<"  -> Scaled(l) < Scaled(r)
    [] op = "<=" -> Scaled(l) <= Scaled(r)

\* pair i of the literals a: both are numbers / they are numbers related by op
NumericPair(a, i) ==
  LiteralType(a[i]) = "number" /\ LiteralType(a[i + 1]) = "number"
RelatedPair(op, a, i) == NumericPair(a, i) /\ Related(op, a[i].value, a[i + 1].value)

ArityMessage(op) ==
  CASE op = ">"  -> "Greater than (>) requires at least 2 arguments"
    [] op = ">=" -> "Greater than or equal (>=) requires at least 2 arguments"
    [] op = "<"  -> "Less than (<) requires at least 2 arguments"
    [] op = "<=" -> "Less than or equal (<=) requires at least 2 arguments"

ComparisonTypeErrors ==
  {"Comparison requires numbers, got " \o l \o " and " \o r :
     l \in {"number", "string", "boolean", "undefined"},
     r \in {"number", "string", "boolean", "undefined"}}

\* a literal whose value, when a number, is a small dyadic one
IsPlainLiteral(e) ==
  IsLiteral(e) /\ (e.type = "number" => IsSmallDyadic(e.value))

\* the comparisons of literals that have been evaluated once
LiteralComparisons ==
  {id \in NodeIds :
     /\ IsComparison(NodeAt(id))
     /\ \A j \in 1..Len(ArgsOf(NodeAt(id))) : IsPlainLiteral(ArgsOf(NodeAt(id))[j])
     /\ Calls(environment, NodeAt(id).location) = 1
     /\ LastResult(environment, NodeAt(id).location) # NotYet}

\* As first stated: every comparison of two or more literals one of which
\* is not a number has returned a type error.
C24_AnyNonNumberFails ==
  Running =>
    \A id \in LiteralComparisons :
      LET n == NodeAt(id)
          a == ArgsOf(n)
      IN
      (Len(a) >= 2 /\ \E j \in 1..Len(a) : LiteralType(a[j]) # "number") =>
        /\ isErr(LastResult(environment, n.location))
        /\ LastResult(environment, n.location).value.message \in ComparisonTypeErrors

\* C24 as the code has it: a comparison of literals with fewer than two
\* arguments has returned the arity error of its operation.  With two or
\* more, the pairs are taken left to right: when pair i is the first that
\* holds a non-number and every pair before it satisfies the relation, the
\* comparison has returned the type error naming the variants of the two
\* arguments of pair i, located at the first of them; when a pair of numbers
\* fails the relation before any pair holding a non-number, the comparison
\* has returned false and the non-number after it is not reported.
C24_NonNumberReachedFails ==
  Running =>
    \A id \in LiteralComparisons :
      LET n == NodeAt(id)
          a == ArgsOf(n)
          r == LastResult(environment, n.location)
      IN
      \A op \in Comparisons : IsForm(n, op) =>
        /\ Len(a) < 2 => IsError(r, ArityMessage(op))
        /\ \A i \in 1..(Len(a) - 1) :
             (\A h \in 1..(i - 1) : RelatedPair(op, a, h)) =>
               /\ ~NumericPair(a, i) =>
                    /\ IsError(r, "Comparison requires numbers, got "
                                    \o LiteralType(a[i]) \o " and "
                                    \o LiteralType(a[i + 1]))
                    /\ r.value.location = a[i].location
               /\ (NumericPair(a, i) /\ ~RelatedPair(op, a, i)) =>
                    IsOkValue(r, "boolean", FALSE)

\* a comparison of three literals has returned the type error of its second
\* pair, and the pair before it satisfies the relation
C24_Witness ==
  /\ Running
  /\ \E id \in LiteralComparisons :
       LET n == NodeAt(id)
           a == ArgsOf(n)
       IN
       /\ IsForm(n, ">=") /\ Len(a) = 3
       /\ RelatedPair(">=", a, 1)
       /\ LiteralType(a[3]) = "string"
       /\ IsError(LastResult(environment, n.location),
                  "Comparison requires numbers, got number and string")
       /\ LastResult(environment, n.location).value.location = a[2].location

-----------------------------------------------------------------------------
(* C25: the value of the comparisons and of =.                             *)

\* the value of a literal, and whether two literals have the same variant
\* tag and the same primitive value
LiteralValue(e) ==
  IF e.type = "symbol" THEN e.value = "true" ELSE e.value
SameLiteral(x, y) ==
  /\ LiteralType(x) = LiteralType(y)
  /\ IF LiteralType(x) = "number"
       THEN Scaled(x.value) = Scaled(y.value)
       ELSE LiteralValue(x) = LiteralValue(y)

\* the forms (= a1 ... an) of literals that have been evaluated once
LiteralEqualities ==
  {id \in NodeIds :
     /\ IsForm(NodeAt(id), "=")
     /\ \A j \in 1..Len(ArgsOf(NodeAt(id))) : IsPlainLiteral(ArgsOf(NodeAt(id))[j])
     /\ Calls(environment, NodeAt(id).location) = 1
     /\ LastResult(environment, NodeAt(id).location) # NotYet}

\* Every comparison of two or more number literals evaluated once has
\* returned a boolean, true exactly when every consecutive pair satisfies
\* the relation of the operation.  Every (= a1 ... an) of two or more
\* literals evaluated once has returned a boolean, true exactly when every
\* argument has the variant tag and the primitive value of the first; in
\* particular it has returned false, not an error, when tags differ.
C25_RelationsAndEquality ==
  Running =>
    /\ \A id \in LiteralComparisons :
         LET n == NodeAt(id)
             a == ArgsOf(n)
         IN
         \A op \in Comparisons :
           (/\ IsForm(n, op) /\ Len(a) >= 2
            /\ \A j \in 1..Len(a) : LiteralType(a[j]) = "number") =>
             IsOkValue(LastResult(environment, n.location), "boolean",
                       \A i \in 1..(Len(a) - 1) : Related(op, a[i].value, a[i + 1].value))
    /\ \A id \in LiteralEqualities :
         LET n == NodeAt(id)
             a == ArgsOf(n)
         IN
         Len(a) >= 2 =>
           IsOkValue(LastResult(environment, n.location), "boolean",
                     \A j \in 2..Len(a) : SameLiteral(a[1], a[j]))

\* an equality of three literals whose last differs from the first by its
\* tag only has returned false
C25_Witness ==
  /\ Running
  /\ \E id \in LiteralEqualities :
       LET a == ArgsOf(NodeAt(id)) IN
       /\ Len(a) = 3
       /\ SameLiteral(a[1], a[2])
       /\ LiteralType(a[1]) = "boolean" /\ LiteralType(a[3]) = "string"
       /\ IsOkValue(LastResult(environment, NodeAt(id).location), "boolean", FALSE)

-----------------------------------------------------------------------------
(* C26: the bindings and the body of let.                                  *)

\* the entries of the bindings list of the let form n (none when the first
\* argument is not a list)
EntriesOf(n) == IF n.elements[2].type = "list" THEN n.elements[2].elements ELSE <<>>
WellFormed(n) ==
  /\ n.elements[2].type = "list"
  /\ \A j \in 1..Len(EntriesOf(n)) : IsBinding(EntriesOf(n)[j])

\* entry j of n has been evaluated once and yielded a value
Bound(n, j) ==
  LET e == EntriesOf(n)[j].elements[2] IN
  /\ Calls(environment, e.location) = 1
  /\ isOk(LastResult(environment, e.location))
  /\ LastResult(environment, e.location).value.type # "undefined"

\* the lets with a body that have been evaluated once
LetsEvaluated ==
  {id \in NodeIds :
     /\ IsForm(NodeAt(id), "let") /\ Len(NodeAt(id).elements) >= 3
     /\ Calls(environment, NodeAt(id).location) = 1
     /\ LastResult(environment, NodeAt(id).location) # NotYet}

\* For every let with a body evaluated once.  Bindings are sequential: an
\* entry (sj x), where x is the name of an earlier entry of the same let
\* (other than true and false, which no binding changes), has as its value
\* the value of the latest such entry.  When every entry
\* is well formed and yielded a value, every body expression has been
\* evaluated once, in order (a symbol that follows a (set s v) of a bound
\* name s other than true and false has yielded v), and the let has
\* returned the Result
\* of the last body expression.  When the first argument is not a list or
\* some entry is not a two-element list headed by a symbol, the let has
\* returned an error and no body expression has been evaluated; the error
\* is the one of the first malformed entry when the entries before it
\* yielded values.
C26_LetBindsThenRunsBody ==
  Running =>
    \A id \in LetsEvaluated :
      LET n == NodeAt(id)
          es == EntriesOf(n)
          body == BodyOf(n)
          r == LastResult(environment, n.location)
      IN
      /\ \A j \in 1..Len(es) : \A h \in 1..(j - 1) :
           (/\ \A g \in 1..j : IsBinding(es[g]) /\ Bound(n, g)
            /\ IsSymbol(es[j].elements[2], es[h].elements[1].value)
            /\ es[h].elements[1].value \notin {"true", "false"}
            /\ \A g \in (h + 1)..(j - 1) :
                 es[g].elements[1].value # es[h].elements[1].value) =>
             LastResult(environment, es[j].elements[2].location)
               = LastResult(environment, es[h].elements[2].location)
      /\ (WellFormed(n) /\ \A j \in 1..Len(es) : Bound(n, j)) =>
           /\ \A i \in 1..Len(body) : Calls(environment, body[i].location) = 1
           /\ r = LastResult(environment, body[Len(body)].location)
           /\ \A i \in 1..(Len(body) - 1) :
                (/\ IsForm(body[i], "set") /\ Len(body[i].elements) = 3
                 /\ body[i].elements[2].type = "symbol"
                 /\ body[i].elements[2].value \in LetNames(n) \ {"true", "false"}
                 /\ body[i].elements[3].type = "number"
                 /\ IsSymbol(body[i + 1], body[i].elements[2].value)) =>
                  /\ isOk(LastResult(environment, body[i + 1].location))
                  /\ LastResult(environment, body[i + 1].location).value.type = "number"
                  /\ LastResult(environment, body[i + 1].location).value.value
                       = body[i].elements[3].value
      /\ ~WellFormed(n) =>
           /\ isErr(r)
           /\ \A i \in 1..Len(body) : NotEvaluated(body[i])
           /\ n.elements[2].type # "list" =>
                /\ IsError(r, "First argument to let must be a list")
                /\ r.value.location = n.elements[2].location
           /\ \A j \in 1..Len(es) :
                (/\ ~IsBinding(es[j])
                 /\ \A g \in 1..(j - 1) : IsBinding(es[g]) /\ Bound(n, g)) =>
                  /\ IsError(r, "Bindings must be of form (symbol expr)")
                  /\ r.value.location = es[j].location

\* a let of four entries, the last naming the second, and two body
\* expressions has returned the value of the last body expression
C26_Witness ==
  /\ Running
  /\ \E id \in LetsEvaluated :
       LET n == NodeAt(id) IN
       /\ WellFormed(n) /\ Len(EntriesOf(n)) = 4 /\ Len(BodyOf(n)) = 2
       /\ \A j \in 1..4 : Bound(n, j)
       /\ IsSymbol(EntriesOf(n)[4].elements[2], EntriesOf(n)[2].elements[1].value)
       /\ LastResult(environment, BodyOf(n)[1].location)
            # LastResult(environment, BodyOf(n)[2].location)
       /\ LastResult(environment, n.location)
            = LastResult(environment, BodyOf(n)[2].location)

-----------------------------------------------------------------------------
(* C27: the reserved names true and false.                                 *)

\* Every evaluation of the symbol true has yielded boolean true and every
\* evaluation of the symbol false boolean false, wherever the symbol
\* stands: at top level, in a let that binds the name, after a set on it.
C27_TrueFalseReserved ==
  Running =>
    \A id \in NodeIds :
      LET n == NodeAt(id) IN
      (/\ n.type = "symbol" /\ n.value \in {"true", "false"}
       /\ Calls(environment, n.location) >= 1
       /\ LastResult(environment, n.location) # NotYet) =>
        IsOkValue(LastResult(environment, n.location), "boolean", n.value = "true")

\* a let that binds true to a number and whose body sets true and then
\* reads it has been evaluated, and the read yielded boolean true
C27_Witness ==
  /\ Running
  /\ \E id \in LetsEvaluated :
       LET n == NodeAt(id)
           body == BodyOf(n)
       IN
       /\ "true" \in LetNames(n)
       /\ \E i \in 1..Len(body) : \E j \in (i + 1)..Len(body) :
            /\ IsForm(body[i], "set") /\ IsSymbol(body[i].elements[2], "true")
            /\ isOk(LastResult(environment, body[i].location))
            /\ IsSymbol(body[j], "true")
            /\ IsOkValue(LastResult(environment, body[j].location), "boolean", TRUE)

-----------------------------------------------------------------------------
(* C28: stroke and fill.                                                   *)

ColorBuiltins == {"stroke", "fill", "noStroke", "noFill", "rect", "line"}
\* e holds no form of a built-in that touches the surface
Colorless(e) ==
  \A i \in 1..Len(Nodes(e)) :
    \A b \in ColorBuiltins : ~IsForm(Nodes(e)[i], b)

\* a call of stroke or fill, the color it sets and the other one
IsColorForm(e) == IsForm(e, "stroke") \/ IsForm(e, "fill")
OwnStyle(e) == IF IsForm(e, "stroke") THEN "strokeStyle" ELSE "fillStyle"
OtherStyle(e) == IF IsForm(e, "stroke") THEN "fillStyle" ELSE "strokeStyle"

\* what the single argument of the call e has yielded in env
Yielded(env, e) == LastResult(env, e.elements[2].location)
\* the call e has one argument, evaluated once, and it yielded a string
GivenString(env, e) ==
  /\ Len(e.elements) = 2
  /\ Calls(env, e.elements[2].location) = 1
  /\ isOk(Yielded(env, e))
  /\ Yielded(env, e).value.type = "string"
\* the call e has one argument, evaluated once, and it yielded a value that
\* is not a string
GivenOther(env, e) ==
  /\ Len(e.elements) = 2
  /\ Calls(env, e.elements[2].location) = 1
  /\ isOk(Yielded(env, e))
  /\ Yielded(env, e).value.type # "string"

\* the step of run that evaluates a top-level call of stroke or fill
ColorStep ==
  /\ pc = "run" /\ Len(results) < Len(program)
  /\ IsColorForm(program[Len(results) + 1])

\* C28, the statement as claimed, for every top-level call of stroke or
\* fill: with one argument that yielded a string the call has set its color to
\* that string, left the other color as it was and returned Ok with no
\* value; with one argument that yielded something else, or with another
\* number of arguments, it has returned an error and left both colors as
\* they were.
C28_FailedCallLeavesColors ==
  [][ColorStep =>
       LET e      == program[Len(results) + 1]
           r      == results'[Len(results) + 1]
           before == environment.canvas
           after  == environment'.canvas
       IN
       /\ GivenString(environment', e) =>
            /\ isOk(r) /\ r.value = Undefined
            /\ after[OwnStyle(e)] = Yielded(environment', e).value.value
            /\ after[OtherStyle(e)] = before[OtherStyle(e)]
       /\ (GivenOther(environment', e) \/ Len(e.elements) # 2) =>
            /\ isErr(r)
            /\ after.strokeStyle = before.strokeStyle
            /\ after.fillStyle = before.fillStyle]_vars

\* C28, as the code has it, for every top-level call of stroke or fill.
\* With another number of arguments than one the call has returned an
\* error, evaluated no argument and left the surface as it was.  With one
\* argument that yielded a string it has returned Ok with no value and the
\* surface is as the evaluation of the argument left it, with the call's
\* own color set to that string; with one argument that yielded something
\* else, or failed, it has returned an error and the surface is as the
\* evaluation of the argument left it.  So the call itself changes nothing
\* but its own color: when the argument holds no form of stroke, fill,
\* noStroke, noFill, rect or line, the other color is as it was before the
\* call, and after an error both colors and the operations issued are.
C28_StrokeAndFill ==
  [][ColorStep =>
       LET e      == program[Len(results) + 1]
           r      == results'[Len(results) + 1]
           before == environment.canvas
           after  == environment'.canvas
       IN
       IF Len(e.elements) # 2
         THEN /\ isErr(r)
              /\ after = before
              /\ \A j \in 2..Len(e.elements) :
                   \A i \in 1..Len(Nodes(e.elements[j])) :
                     Calls(environment', Nodes(e.elements[j])[i].location) = 0
         ELSE LET left == evaluate(environment, e.elements[2]).env.canvas IN
              /\ Calls(environment', e.elements[2].location) = 1
              /\ IF GivenString(environment', e)
                   THEN /\ isOk(r) /\ r.value = Undefined
                        /\ after = [left EXCEPT ![OwnStyle(e)] =
                                      Yielded(environment', e).value.value]
                   ELSE /\ isErr(r)
                        /\ after = left
              /\ Colorless(e.elements[2]) =>
                   /\ after[OtherStyle(e)] = before[OtherStyle(e)]
                   /\ after.operations = before.operations
                   /\ ~GivenString(environment', e) => after = before]_vars

\* run has evaluated a stroke whose argument set the fill color and yielded
\* a string (both colors changed, Ok), a stroke whose argument was a fill
\* (the fill took effect, the stroke failed on its undefined) and a fill
\* given a number (an error, both colors as they were)
C28_Witness ==
  /\ RunDone /\ Len(program) = 3
  /\ IsForm(program[1], "stroke") /\ GivenString(environment, program[1])
  /\ ~Colorless(program[1].elements[2])
  /\ isOk(results[1])
  /\ IsForm(program[2], "stroke") /\ GivenOther(environment, program[2])
  /\ IsForm(program[2].elements[2], "fill")
  /\ Yielded(environment, program[2]) = ok(Undefined)
  /\ isErr(results[2])
  /\ IsForm(program[3], "fill") /\ GivenOther(environment, program[3])
  /\ Colorless(program[3].elements[2])
  /\ isErr(results[3])
  /\ environment.canvas.strokeStyle = Yielded(environment, program[1]).value.value
  /\ environment.canvas.fillStyle
       = LastResult(environment, program[2].elements[2].elements[2].location).value.value
  /\ environment.canvas.fillStyle # environment.canvas.strokeStyle

-----------------------------------------------------------------------------
(* C29: only the drawing built-ins touch the surface.                      *)

\* Every step of run that evaluates a top-level expression holding no form
\* of stroke, fill, noStroke, noFill, rect or line leaves the surface as it
\* was: its stroke color, its fill color and the sequence of the operations
\* issued, whether the expression returns a value or an error.
C29_OnlyDrawingTouchesSurface ==
  [][(/\ pc = "run" /\ Len(results) < Len(program)
      /\ Colorless(program[Len(results) + 1]))
       => environment'.canvas = environment.canvas]_vars

\* run has evaluated, on a surface whose stroke color an earlier
\* expression had set, an expression without drawing forms that holds a let
\* and a while and failed, and one that returned a value
C29_Witness ==
  /\ RunDone
  /\ environment.canvas.strokeStyle # MockCanvas.strokeStyle
  /\ \E k \in 2..Len(results) : \E h \in 2..Len(results) :
       /\ Colorless(program[k]) /\ isErr(results[k])
       /\ \E i \in 1..Len(Nodes(program[k])) : IsForm(Nodes(program[k])[i], "while")
       /\ IsForm(program[k], "let")
       /\ Colorless(program[h]) /\ isOk(results[h])
       /\ ~Colorless(program[1])

-----------------------------------------------------------------------------
(* C30: the tokens the parser accepts as numbers.                          *)

\* the end of the run of digits and points that starts at offset p
RECURSIVE RunEnd(_)
RunEnd(p) ==
  IF p < Len(input) /\ input[p + 1] \in NumberChars THEN RunEnd(p + 1) ELSE p

\* a number starts at offset p: a digit, or a minus sign before a digit
StartsNumber(p) ==
  /\ p < Len(input)
  /\ \/ input[p + 1] \in Digits
     \/ input[p + 1] = "-" /\ p + 1 < Len(input) /\ input[p + 2] \in Digits

\* the maximal run at p: the optional minus sign, then digits and points
RunAt(p) ==
  SubSeq(input, p + 1, RunEnd(IF input[p + 1] = "-" THEN p + 1 ELSE p))

\* run matches '-'? digit+ ('.' digit+)?
MatchesGrammar(run) ==
  LET body == IF run[1] = "-" THEN Tail(run) ELSE run
      points == {i \in 1..Len(body) : body[i] = "."}
  IN  /\ body # <<>>
      /\ body[1] \in Digits
      /\ body[Len(body)] \in Digits
      /\ Cardinality(points) <= 1

\* For every iteration of parse's driver loop that starts on a number: when
\* the maximal run of an optional minus sign, digits and points matches the
\* grammar '-'? digit+ ('.' digit+)?, the iteration has yielded an
\* expression that ends where the run ends; when it does not, as with a
\* trailing point or two points, the iteration has failed with the error
\* Invalid number format '<run>'.
C30_NumberGrammar ==
  \A i \in 1..Len(iterations) :
    LET p == iterations[i].innerStart
        run == RunAt(p)
    IN
    StartsNumber(p) =>
      IF MatchesGrammar(run)
        THEN /\ iterations[i].kind = "ok"
             /\ iterations[i].innerEnd = p + Len(run)
        ELSE /\ iterations[i].kind = "error"
             /\ errors[Cardinality({h \in FailedIterations : h <= i})].message
                  = "Invalid number format '" \o Join(run) \o "'"
====
